---- MODULE Spec2Model ----
(***************************************************************************)
(* Model of the live refresh controller (lib/live), the snapshot cache     *)
(* (lib/snapshot-cache), the snapshot route and the high-volume board      *)
(* cache of truong-tomato/bbcheck.                                         *)
(*                                                                         *)
(* JavaScript runs one callback at a time, so every action below is one    *)
(* synchronous run of code between two suspension points (await).          *)
(***************************************************************************)
EXTENDS Integers, Sequences, FiniteSets, TLC

(***************************************************************************)
(* Bounds of the model.                                                    *)
(***************************************************************************)
MaxStates == 2      \* LiveState objects ever created under the key
MaxSubs == 2        \* subscribers ever created
MaxTasks == 2       \* async invocations (refreshState / tickState) in flight
MaxRefreshes == 2   \* refreshes started per LiveState
MaxSig == 1         \* signatures a wallet can acquire
NumWallets == 1     \* tracked wallets of the snapshot
MaxLiveAdvances == 1 \* clock advances in the live specification

(***************************************************************************)
(* Program constants.                                                      *)
(***************************************************************************)
liveForceRefreshMs == 600000

StateIds == 1..MaxStates
SubIds == 1..MaxSubs
TaskIds == 1..MaxTasks
Wallets == 1..NumWallets

\* One advance of the clock makes a snapshot stale.
LiveClockStep == liveForceRefreshMs

VARIABLES
    states,      \* the registry Map<string, LiveState>, for the one key: 0 or a state id
    live,        \* the LiveState objects, by id
    subs,        \* the LiveSubscriber objects with what their callbacks received
    tasks,       \* the async invocations in flight and where each is suspended
    latestSig,   \* the ledger: number of the latest signature of each wallet (0: none)
    now,         \* Date.now()
    hist,        \* per LiveState history: refreshes started, ledger at the stored fingerprint
    cache,       \* snapshot-cache: Map<string, CacheEntry>, as the set of its entries
    boardCache,  \* high-volume: Map<string, CachedBoard>, as the set of its entries
    pending,     \* requests suspended in buildSnapshot or in the board's fetches
    written,     \* history: the last write to each cache key
    programs,    \* whether getProgramSources() yields any program (fixed by the environment)
    ev           \* the last operation performed, with the state before it

liveVars == <<states, live, subs, tasks, latestSig, hist>>
cacheVars == <<cache, boardCache, pending, written, programs>>

\* One run of buildSnapshot over what its fetches answered.
VARIABLES
    tokenAccounts,     \* getParsedProgramAccounts: the token accounts of the mint, in order
    mintMetadata,      \* fetchMintMetadata: supplyRaw, decimals and supply
    normalizedOptions, \* holderLimit and edgeWalletLimit of the run
    holders,           \* Map<string, bigint> of fetchHolderBalancesByOwner, in insertion order
    nodes,             \* SnapshotNode[]
    instructions,      \* the parsed instructions of the transactions fetched, in order
    transferEvents,    \* TransferEvent[] of collectTransferEventsForMint
    edges,             \* SnapshotEdge[]
    buildPc            \* where the run of buildSnapshot is

buildVars == <<tokenAccounts, mintMetadata, normalizedOptions, holders, nodes,
               instructions, transferEvents, edges, buildPc>>

\* One run of the signature scan of collectTransferEventsForMint (for buildSnapshot)
\* or of buildHighVolumeBoard.
VARIABLES
    scanKind,       \* "snapshot" or "board": which aggregation runs
    fetchResults,   \* what getSignaturesForAddress answers for each wallet or program
    chunkFailures,  \* the chunks (by number) whose getParsedTransactions rejects
    maxSigs,        \* maxSignatures of the run
    waiting,        \* the wallets or programs whose signature fetch is outstanding
    signatureMap,   \* signatureMap / signatureSources, in insertion order
    signatures,     \* the signatures selected for scanning
    chunkIndex,     \* i of the loop over the chunks of signatures
    transactions,   \* the signatures of the transactions fetched so far
    scanPc          \* where the run is

scanVars == <<scanKind, fetchResults, chunkFailures, maxSigs, waiting, signatureMap,
              signatures, chunkIndex, transactions, scanPc>>

\* The loop of buildHighVolumeBoard over the parsed transactions.
VARIABLES
    aggregate,            \* Map<string, AggregateEntry>, in insertion order
    scannedTransactions,  \* how many parsed transactions the loop has taken
    parsedTransaction,    \* the transaction taken last
    aggregateBefore,      \* history: aggregate before the transaction taken last
    attributed,           \* history: per owner, the candidates and their volume shares
    classified,           \* history: who bought and sold in which transaction, by raw deltas
    boardRequest,         \* safeLimit and safeMinTotalGor of the board
    rankedEntries,        \* the entries of the board built
    tradePc               \* where the loop is

tradeVars == <<aggregate, scannedTransactions, parsedTransaction, aggregateBefore,
               attributed, classified, boardRequest, rankedEntries, tradePc>>
pureVars == <<buildVars, scanVars, tradeVars>>

\* buildSnapshot does not run in this specification.
BuildIdle ==
    /\ tokenAccounts = <<>>
    /\ mintMetadata = <<>>
    /\ normalizedOptions = <<>>
    /\ holders = <<>>
    /\ nodes = <<>>
    /\ instructions = <<>>
    /\ transferEvents = <<>>
    /\ edges = <<>>
    /\ buildPc = "idle"

\* No scan runs in this specification.
ScanIdle ==
    /\ scanKind = ""
    /\ fetchResults = <<>>
    /\ chunkFailures = {}
    /\ maxSigs = 0
    /\ waiting = {}
    /\ signatureMap = <<>>
    /\ signatures = <<>>
    /\ chunkIndex = 0
    /\ transactions = <<>>
    /\ scanPc = "idle"

\* No board is aggregated in this specification.
TradeIdle ==
    /\ aggregate = <<>>
    /\ scannedTransactions = 0
    /\ parsedTransaction = <<>>
    /\ aggregateBefore = <<>>
    /\ attributed = <<>>
    /\ classified = {}
    /\ boardRequest = <<>>
    /\ rankedEntries = <<>>
    /\ tradePc = "idle"

PureIdle == BuildIdle /\ ScanIdle /\ TradeIdle

(***************************************************************************)
(* Data.                                                                   *)
(***************************************************************************)
\* TokenSnapshot: identified by the refresh that built it and the ledger it saw.
NoSnapshot == [seq |-> 0, seen |-> [w \in Wallets |-> 0]]

\* The fields of a LiveState as ensureState creates them (timer is set by startState).
NewLiveState ==
    [created |-> FALSE,
     subscribers |-> {},
     snapshot |-> NoSnapshot,
     activityFingerprint |-> <<>>,
     lastRefreshAt |-> 0,
     isRefreshing |-> FALSE,
     timer |-> FALSE]

NoSub == [state |-> 0, onError |-> FALSE, called |-> FALSE, got |-> <<>>, errs |-> 0]

\* A subscriber whose unsubscribe function has run: the route closes its stream and
\* drops the function, so what the stream carried is no longer observable.
ClosedSub(s) == [NoSub EXCEPT !.state = s, !.called = TRUE]

IdleTask == [s |-> 0, pc |-> "idle", seq |-> 0, snap |-> NoSnapshot]

NoHist == [refreshes |-> 0, sigsAtStore |-> [w \in Wallets |-> 0],
           failedAtStore |-> {}, atStop |-> {}]

\* What the last operation was: the LiveState s it acted on before (pre) and after
\* (post) it, the invocation t and subscriber u involved, whether it called
\* refreshState (called) and whether that call went on to buildSnapshot (began),
\* the fingerprint it computed, and the subscribers whose callbacks it invoked.
NoEvent ==
    [op |-> "init", s |-> 0, t |-> 0, u |-> 0,
     pre |-> NewLiveState, post |-> NewLiveState, hpre |-> NoHist, snap |-> NoSnapshot,
     called |-> FALSE, began |-> FALSE, fp |-> <<>>, failed |-> {},
     delivered |-> {}, errored |-> {}, registry |-> 0, timers |-> {}]

Min(S) == CHOOSE x \in S : \A y \in S : x <= y

FreeTasks == {t \in TaskIds : tasks[t].pc = "idle"}
FreeStates == {s \in StateIds : ~live[s].created}
FreeSubs == {u \in SubIds : subs[u].state = 0}

TasksOf(s) == {t \in TaskIds : tasks[t].pc # "idle" /\ tasks[t].s = s}
RefreshesInFlight(s) == {t \in TasksOf(s) : tasks[t].pc \in {"build", "fp2"}}

(***************************************************************************)
(* fetchActivityFingerprint: one token per wallet, "error" for a failed    *)
(* fetch, "none" for a wallet without signatures, else the signature. The  *)
(* tokens are joined with "|"; no token contains "|" and none is empty, so *)
(* the joined string is kept as the sequence of its tokens and "" is <<>>. *)
(***************************************************************************)
TokenErrorAsNone(w, failed) ==
    IF w \in failed \/ latestSig[w] = 0 THEN [kind |-> "none", sig |-> 0]
    ELSE [kind |-> "sig", sig |-> latestSig[w]]

\* latest[0]?.signature ?? "none", or "error" from the catch.
Token(w, failed) ==
    IF w \in failed THEN [kind |-> "error", sig |-> 0]
    ELSE IF latestSig[w] = 0 THEN [kind |-> "none", sig |-> 0]
    ELSE [kind |-> "sig", sig |-> latestSig[w]]

fetchActivityFingerprint(failed) == [w \in Wallets |-> Token(w, failed)]

(***************************************************************************)
(* refreshState, up to its first await.                                    *)
(***************************************************************************)
RefreshBlockedNever(l) == FALSE

\* if (state.isRefreshing) return;
RefreshBlocked(l) == l.isRefreshing

\* The cap on refreshes per state keeps the refresh numbering finite.
CanRefresh(s) == RefreshBlocked(live[s]) \/ hist[s].refreshes < MaxRefreshes

\* The LiveState after refreshState has run to its first await.
refreshStateEnter(l) ==
    IF RefreshBlocked(l) THEN l ELSE [l EXCEPT !.isRefreshing = TRUE]

\* The invocation t after calling refreshState on l: suspended in buildSnapshot, or finished.
TaskAfterRefreshCall(s, l) ==
    IF RefreshBlocked(l) THEN IdleTask
    ELSE [s |-> s, pc |-> "build", seq |-> hist[s].refreshes + 1, snap |-> NoSnapshot]

HistAfterRefreshCall(s, l) ==
    IF RefreshBlocked(l) THEN hist
    ELSE [hist EXCEPT ![s].refreshes = @ + 1]

(***************************************************************************)
(* notifySnapshot / notifyError: every subscriber of the state, in one     *)
(* synchronous loop. A delivery records the in-progress flag it ran under. *)
(***************************************************************************)
Delivery(snapshot, l) == [seq |-> snapshot.seq, busy |-> l.isRefreshing]

notifySnapshotNobody(l, snapshot) == subs

notifySnapshot(l, snapshot) ==
    [u \in SubIds |->
        IF u \in l.subscribers
        THEN [subs[u] EXCEPT !.got = Append(@, Delivery(snapshot, l))]
        ELSE subs[u]]

notifyError(l) ==
    [u \in SubIds |->
        IF u \in l.subscribers /\ subs[u].onError
        THEN [subs[u] EXCEPT !.errs = @ + 1]
        ELSE subs[u]]

(***************************************************************************)
(* Initial state: empty registry, no LiveState, ledger without activity.   *)
(***************************************************************************)
LiveInit ==
    /\ states = 0
    /\ live = [s \in StateIds |-> NewLiveState]
    /\ subs = [u \in SubIds |-> NoSub]
    /\ tasks = [t \in TaskIds |-> IdleTask]
    /\ latestSig = [w \in Wallets |-> 0]
    /\ hist = [s \in StateIds |-> NoHist]


(***************************************************************************)
(* A stopped LiveState with no invocation in flight is unreachable: the    *)
(* registry, the timer and every pending promise have dropped it. Only the *)
(* fields an old unsubscribe closure reads (subscribers, timer) are kept.  *)
(***************************************************************************)
Unreachable(l, s, tk) ==
    /\ l.created
    /\ l.subscribers = {}
    /\ ~l.timer
    /\ \A t \in TaskIds : tk[t].pc = "idle" \/ tk[t].s # s

Collected == [NewLiveState EXCEPT !.created = TRUE]

Collect(lv, tk) ==
    [s \in StateIds |-> IF Unreachable(lv[s], s, tk) THEN Collected ELSE lv[s]]

CollectHist(h, lv, tk) ==
    [s \in StateIds |-> IF Unreachable(lv[s], s, tk) THEN NoHist ELSE h[s]]

Event(op, s, t, u, post) ==
    [NoEvent EXCEPT !.op = op, !.s = s, !.t = t, !.u = u,
                    !.pre = live[s], !.post = post, !.hpre = hist[s]]

(***************************************************************************)
(* startState: the initial refresh runs to its first await, then the       *)
(* interval timer is set.                                                  *)
(***************************************************************************)
startState(l) == [refreshStateEnter(l) EXCEPT !.timer = TRUE]

(***************************************************************************)
(* subscribeToLiveSnapshots. The function contains no await: ensureState,  *)
(* subscribers.add and the replay run in one synchronous step.             *)
(***************************************************************************)
ReplayNothing(l) == <<>>

\* if (state.snapshot) onSnapshot(state.snapshot);
Replay(l) ==
    IF l.snapshot # NoSnapshot THEN <<Delivery(l.snapshot, l)>> ELSE <<>>

NewSub(s, onErr, l) ==
    [state |-> s, onError |-> onErr, called |-> FALSE, got |-> Replay(l), errs |-> 0]

\* ensureState found the key in the registry.
SubscribeExisting(onErr) ==
    /\ FreeSubs # {}
    /\ states # 0
    /\ LET u == Min(FreeSubs)
           s == states
           l == [live[s] EXCEPT !.subscribers = @ \cup {u}]
       IN  /\ live' = [live EXCEPT ![s] = l]
           /\ subs' = [subs EXCEPT ![u] = NewSub(s, onErr, l)]
           /\ ev' = [Event("subscribe", s, 0, u, l) EXCEPT
                        !.delivered = IF subs'[u].got # <<>> THEN {u} ELSE {}]
    /\ UNCHANGED <<pureVars, states, tasks, latestSig, now, hist, cacheVars>>

\* ensureState creates the LiveState, registers it and starts it.
SubscribeNew(onErr) ==
    /\ FreeSubs # {}
    /\ states = 0
    /\ FreeStates # {}
    /\ FreeTasks # {}
    /\ LET u == Min(FreeSubs)
           s == Min(FreeStates)
           t == Min(FreeTasks)
           l0 == [NewLiveState EXCEPT !.created = TRUE]
           l == [startState(l0) EXCEPT !.subscribers = {u}]
       IN  /\ states' = s
           /\ live' = [live EXCEPT ![s] = l]
           /\ tasks' = [tasks EXCEPT ![t] = TaskAfterRefreshCall(s, l0)]
           /\ hist' = HistAfterRefreshCall(s, l0)
           /\ subs' = [subs EXCEPT ![u] = NewSub(s, onErr, l)]
           /\ ev' = [Event("subscribe", s, t, u, l) EXCEPT
                        !.pre = l0, !.called = TRUE, !.began = ~RefreshBlocked(l0),
                        !.delivered = IF subs'[u].got # <<>> THEN {u} ELSE {}]
    /\ UNCHANGED <<pureVars, latestSig, now, cacheVars>>

(***************************************************************************)
(* The unsubscribe closure and stopState.                                  *)
(***************************************************************************)
stopTimerKeep(l) == l

\* if (state.timer) { clearInterval(state.timer); state.timer = null; }
stopTimer(l) == [l EXCEPT !.timer = FALSE]

statesDeleteSkip(registry) == registry

\* states.delete(state.key): whatever the key maps to is removed.
statesDelete(registry) == 0

UnsubscribeCall(u) ==
    LET s == subs[u].state
        l == [live[s] EXCEPT !.subscribers = @ \ {u}]
        last == l.subscribers = {}
        after == [live EXCEPT ![s] = IF last THEN stopTimer(l) ELSE l]
        stopped == IF last /\ live[s].subscribers # {}
                   THEN [hist EXCEPT ![s].atStop = TasksOf(s)]
                   ELSE hist
    IN  /\ live' = Collect(after, tasks)
        /\ hist' = CollectHist(stopped, after, tasks)
        /\ states' = IF last THEN statesDelete(states) ELSE states
        /\ subs' = [subs EXCEPT ![u] = ClosedSub(s)]
        /\ ev' = Event("unsubscribe", s, 0, u, after[s])
        /\ UNCHANGED <<pureVars, tasks, latestSig, now, cacheVars>>

\* The route calls each unsubscribe function once and then drops it.
Unsubscribe(u) ==
    /\ subs[u].state # 0
    /\ ~subs[u].called
    /\ UnsubscribeCall(u)

\* The LiveStates whose interval timer is set.
Timers == {s \in StateIds : live[s].timer}

\* A caller of subscribeToLiveSnapshots that keeps the unsubscribe function and
\* calls it again: the closure runs as it did the first time.
UnsubscribeAgain(u) ==
    /\ subs[u].state # 0
    /\ subs[u].called
    /\ LET s == subs[u].state
           l == [live[s] EXCEPT !.subscribers = @ \ {u}]
           last == l.subscribers = {}
           after == [live EXCEPT ![s] = IF last THEN stopTimer(l) ELSE l]
       IN  /\ live' = Collect(after, tasks)
           /\ hist' = CollectHist(hist, after, tasks)
           /\ states' = IF last THEN statesDelete(states) ELSE states
           /\ ev' = [Event("unsubscribeAgain", s, 0, u, after[s]) EXCEPT
                        !.registry = states, !.timers = Timers]
    /\ UNCHANGED <<pureVars, subs, tasks, latestSig, now, cacheVars>>

(***************************************************************************)
(* tickState, up to its first await.                                       *)
(***************************************************************************)
StaleAfterInterval(l) == now - l.lastRefreshAt > liveForceRefreshMs

\* now - state.lastRefreshAt >= state.options.forceRefreshMs
Stale(l) == now - l.lastRefreshAt >= liveForceRefreshMs

Tick(s) ==
    /\ live[s].timer
    /\ FreeTasks # {}
    /\ LET t == Min(FreeTasks)
           l == live[s]
       IN  IF l.snapshot = NoSnapshot \/ Stale(l)
           THEN /\ CanRefresh(s)
                /\ live' = [live EXCEPT ![s] = refreshStateEnter(l)]
                /\ tasks' = [tasks EXCEPT ![t] = TaskAfterRefreshCall(s, l)]
                /\ hist' = HistAfterRefreshCall(s, l)
                /\ ev' = [Event("tick", s, t, 0, refreshStateEnter(l)) EXCEPT
                             !.called = TRUE, !.began = ~RefreshBlocked(l)]
           ELSE /\ tasks' = [tasks EXCEPT ![t] = [IdleTask EXCEPT !.s = s, !.pc = "fp"]]
                /\ UNCHANGED <<pureVars, live, hist>>
                /\ ev' = Event("tick", s, t, 0, l)
    /\ UNCHANGED <<pureVars, states, subs, latestSig, now, cacheVars>>


(***************************************************************************)
(* tickState after its fingerprint fetch has settled.                      *)
(***************************************************************************)
FingerprintDiffersAlways(fp, stored) == TRUE

\* fingerprint !== state.activityFingerprint
FingerprintDiffers(fp, stored) == fp # stored

TickFingerprint(t, failed) ==
    /\ tasks[t].pc = "fp"
    /\ LET s == tasks[t].s
           l == live[s]
           fp == fetchActivityFingerprint(failed)
       IN  IF FingerprintDiffers(fp, l.activityFingerprint)
           THEN /\ CanRefresh(s)
                /\ tasks' = [tasks EXCEPT ![t] = TaskAfterRefreshCall(s, l)]
                /\ LET after == [live EXCEPT ![s] = refreshStateEnter(l)]
                   IN  /\ live' = Collect(after, tasks')
                       /\ hist' = CollectHist(HistAfterRefreshCall(s, l), after, tasks')
                /\ ev' = [Event("tickfp", s, t, 0, refreshStateEnter(l)) EXCEPT
                             !.called = TRUE, !.began = ~RefreshBlocked(l),
                             !.fp = fp, !.failed = failed]
           ELSE /\ tasks' = [tasks EXCEPT ![t] = IdleTask]
                /\ live' = Collect(live, tasks')
                /\ hist' = CollectHist(hist, live, tasks')
                /\ ev' = [Event("tickfp", s, t, 0, l) EXCEPT !.fp = fp, !.failed = failed]
    /\ UNCHANGED <<pureVars, states, subs, latestSig, now, cacheVars>>

(***************************************************************************)
(* refreshState after buildSnapshot has settled.                           *)
(***************************************************************************)
\* state.snapshot = snapshot; state.lastRefreshAt = Date.now();
storeSnapshot(l, snapshot) == [l EXCEPT !.snapshot = snapshot, !.lastRefreshAt = now]

\* buildSnapshot resolved: the snapshot is stored and the fingerprint fetch starts.
BuildOk(t) ==
    /\ tasks[t].pc = "build"
    /\ LET s == tasks[t].s
           snapshot == [seq |-> tasks[t].seq, seen |-> latestSig]
           l == storeSnapshot(live[s], snapshot)
       IN  /\ live' = [live EXCEPT ![s] = l]
           /\ tasks' = [tasks EXCEPT ![t].pc = "fp2", ![t].snap = snapshot]
           /\ ev' = [Event("buildok", s, t, 0, l) EXCEPT !.snap = snapshot]
    /\ UNCHANGED <<pureVars, states, subs, latestSig, now, hist, cacheVars>>

refreshFinallyKeepsFlag(l) == l

\* finally { state.isRefreshing = false; }
refreshFinally(l) == [l EXCEPT !.isRefreshing = FALSE]

failureClearsSnapshot(l) == refreshFinally([l EXCEPT !.snapshot = NoSnapshot])

\* catch { notifyError } finally { ... }: no field of the state but the flag changes.
afterFailure(l) == refreshFinally(l)

\* buildSnapshot rejected.
BuildFail(t) ==
    /\ tasks[t].pc = "build"
    /\ LET s == tasks[t].s
           l == afterFailure(live[s])
       IN  /\ subs' = notifyError(live[s])
           /\ tasks' = [tasks EXCEPT ![t] = IdleTask]
           /\ live' = Collect([live EXCEPT ![s] = l], tasks')
           /\ hist' = CollectHist(hist, [live EXCEPT ![s] = l], tasks')
           /\ ev' = [Event("buildfail", s, t, 0, l) EXCEPT
                        !.errored = {u \in SubIds : subs'[u].errs # subs[u].errs}]
    /\ UNCHANGED <<pureVars, states, latestSig, now, cacheVars>>

(***************************************************************************)
(* refreshState after its fingerprint fetch has settled: the fingerprint   *)
(* is stored, the subscribers are notified, the flag is cleared.           *)
(***************************************************************************)
RefreshFingerprint(t, failed) ==
    /\ tasks[t].pc = "fp2"
    /\ LET s == tasks[t].s
           fp == fetchActivityFingerprint(failed)
           l == [live[s] EXCEPT !.activityFingerprint = fp]
           after == [live EXCEPT ![s] = refreshFinally(l)]
           stored == [hist EXCEPT ![s].sigsAtStore = latestSig, ![s].failedAtStore = failed]
       IN  /\ subs' = notifySnapshot(l, tasks[t].snap)
           /\ tasks' = [tasks EXCEPT ![t] = IdleTask]
           /\ live' = Collect(after, tasks')
           /\ hist' = CollectHist(stored, after, tasks')
           /\ ev' = [Event("refreshfp", s, t, 0, after[s]) EXCEPT
                        !.snap = tasks[t].snap, !.fp = fp, !.failed = failed,
                        !.delivered = {u \in SubIds : subs'[u].got # subs[u].got}]
    /\ UNCHANGED <<pureVars, states, latestSig, now, cacheVars>>

(***************************************************************************)
(* The same step when the onSnapshot callback of subscriber u throws (its  *)
(* stream is closed): the loop of notifySnapshot ends there, the catch     *)
(* block runs notifyError, whose loop ends at u if u's onError throws too, *)
(* and the finally block clears the flag. Subscribers are visited in the   *)
(* order they were added, which is the order of their ids.                 *)
(***************************************************************************)
notifySnapshotUntil(l, snapshot, u) ==
    [v \in SubIds |->
        IF v \in l.subscribers /\ v < u
        THEN [subs[v] EXCEPT !.got = Append(@, Delivery(snapshot, l))]
        ELSE subs[v]]

notifyErrorUntil(received, l, u, errorThrows) ==
    [v \in SubIds |->
        IF v \in l.subscribers /\ received[v].onError /\ (errorThrows => v < u)
        THEN [received[v] EXCEPT !.errs = @ + 1]
        ELSE received[v]]

RefreshFingerprintThrows(t, u, errorThrows) ==
    /\ tasks[t].pc = "fp2"
    /\ u \in live[tasks[t].s].subscribers
    /\ errorThrows => subs[u].onError
    /\ LET s == tasks[t].s
           fp == fetchActivityFingerprint({})
           l == [live[s] EXCEPT !.activityFingerprint = fp]
           after == [live EXCEPT ![s] = refreshFinally(l)]
           stored == [hist EXCEPT ![s].sigsAtStore = latestSig, ![s].failedAtStore = {}]
       IN  /\ subs' = notifyErrorUntil(notifySnapshotUntil(l, tasks[t].snap, u), l, u,
                                       errorThrows)
           /\ tasks' = [tasks EXCEPT ![t] = IdleTask]
           /\ live' = Collect(after, tasks')
           /\ hist' = CollectHist(stored, after, tasks')
           /\ ev' = [Event("refreshthrow", s, t, u, after[s]) EXCEPT
                        !.snap = tasks[t].snap, !.fp = fp,
                        !.delivered = {v \in SubIds : subs'[v].got # subs[v].got},
                        !.errored = {v \in SubIds : subs'[v].errs # subs[v].errs}]
    /\ UNCHANGED <<pureVars, states, latestSig, now, cacheVars>>

(***************************************************************************)
(* The environment: ledger activity and the clock.                         *)
(***************************************************************************)
NewActivity(w) ==
    /\ latestSig[w] < MaxSig
    /\ latestSig' = [latestSig EXCEPT ![w] = @ + 1]
    /\ ev' = [NoEvent EXCEPT !.op = "activity"]
    /\ UNCHANGED <<pureVars, states, live, subs, tasks, now, hist, cacheVars>>

LiveAdvance ==
    /\ now < MaxLiveAdvances * LiveClockStep
    /\ now' = now + LiveClockStep
    /\ ev' = [NoEvent EXCEPT !.op = "advance"]
    /\ UNCHANGED <<pureVars, liveVars, cacheVars>>

(***************************************************************************)
(* The live controller with the route as its caller.                       *)
(***************************************************************************)
vars == <<states, live, subs, tasks, latestSig, now, hist, cache, boardCache, pending, written,
          programs, ev, pureVars>>

\* No request reaches the caches in this specification.
CacheIdle ==
    /\ cache = {}
    /\ boardCache = {}
    /\ pending = {}
    /\ written = [snapshot |-> {}, board |-> {}]
    /\ programs = TRUE

Init ==
    /\ LiveInit
    /\ CacheIdle
    /\ PureIdle
    /\ now = 0
    /\ ev = NoEvent

Next ==
    \/ \E onErr \in BOOLEAN : SubscribeNew(onErr)
    \/ \E onErr \in BOOLEAN : SubscribeExisting(onErr)
    \/ \E u \in SubIds : Unsubscribe(u)
    \/ \E s \in StateIds : Tick(s)
    \/ \E t \in TaskIds, failed \in SUBSET Wallets : TickFingerprint(t, failed)
    \/ \E t \in TaskIds : BuildOk(t)
    \/ \E t \in TaskIds : BuildFail(t)
    \/ \E t \in TaskIds, failed \in SUBSET Wallets : RefreshFingerprint(t, failed)
    \/ \E w \in Wallets : NewActivity(w)
    \/ LiveAdvance

Spec == Init /\ [][Next]_vars

\* The live controller with a caller that may call an unsubscribe function again.
ClientNext ==
    \/ Next
    \/ \E u \in SubIds : UnsubscribeAgain(u)

ClientSpec == Init /\ [][ClientNext]_vars

\* The live controller with callbacks that may throw and fetches that settle:
\* whatever a refresh awaits (buildSnapshot, then fetchActivityFingerprint) is
\* eventually answered. The ledger stays without activity; a fingerprint
\* differs from the stored one when other fetches fail.
ThrowNext ==
    \/ \E onErr \in BOOLEAN : SubscribeNew(onErr)
    \/ \E onErr \in BOOLEAN : SubscribeExisting(onErr)
    \/ \E u \in SubIds : Unsubscribe(u)
    \/ \E s \in StateIds : Tick(s)
    \/ \E t \in TaskIds, failed \in SUBSET Wallets : TickFingerprint(t, failed)
    \/ \E t \in TaskIds : BuildOk(t)
    \/ \E t \in TaskIds : BuildFail(t)
    \/ \E t \in TaskIds, failed \in SUBSET Wallets : RefreshFingerprint(t, failed)
    \/ \E t \in TaskIds, u \in SubIds, errorThrows \in BOOLEAN :
           RefreshFingerprintThrows(t, u, errorThrows)
    \/ LiveAdvance

BuildSettles(t) == BuildOk(t) \/ BuildFail(t)

FingerprintSettles(t) ==
    \/ \E failed \in SUBSET Wallets : RefreshFingerprint(t, failed)
    \/ \E u \in SubIds, errorThrows \in BOOLEAN : RefreshFingerprintThrows(t, u, errorThrows)

SettleSpec ==
    /\ Init
    /\ [][ThrowNext]_vars
    /\ \A t \in TaskIds : WF_vars(BuildSettles(t)) /\ WF_vars(FingerprintSettles(t))


(***************************************************************************)
(* Properties of the live controller.                                      *)
(***************************************************************************)
\* A LiveState whose last subscriber has unsubscribed.
Stopped(l) == l.created /\ l.subscribers = {}

\* The last operation started a ledger fetch: buildSnapshot (began), the fingerprint
\* fetch of a tick, or the fingerprint fetch that follows buildSnapshot in a refresh.
FetchStarted ==
    \/ ev.began
    \/ ev.op = "tick" /\ ~ev.called
    \/ ev.op = "buildok"

\* C1: at most one refreshState execution (buildSnapshot and the fingerprint fetch
\* after it) is in flight per LiveState, the in-progress flag is set exactly while
\* one is, and a refreshState call made while the flag is set does not call
\* buildSnapshot.
C1_AtMostOneRefresh ==
    /\ \A s \in StateIds :
          /\ Cardinality(RefreshesInFlight(s)) <= 1
          /\ live[s].isRefreshing <=> RefreshesInFlight(s) # {}
    /\ (ev.called /\ ev.pre.isRefreshing) => ~ev.began

C1_Witness ==
    /\ ev.op \in {"tick", "tickfp"}
    /\ ev.called
    /\ ev.pre.isRefreshing
    /\ ~ev.began
    /\ Cardinality(RefreshesInFlight(ev.s)) = 1

\* C2: a subscribe call on a LiveState that holds a snapshot has delivered exactly
\* that snapshot to the new subscriber when the call returns; on a LiveState
\* without a snapshot it has delivered nothing.
C2_ReplayOnSubscribe ==
    ev.op = "subscribe" =>
        IF ev.pre.snapshot # NoSnapshot
        THEN /\ Len(subs[ev.u].got) = 1
             /\ subs[ev.u].got[1].seq = ev.pre.snapshot.seq
             /\ ev.delivered = {ev.u}
        ELSE /\ subs[ev.u].got = <<>>
             /\ ev.delivered = {}

C2_Witness ==
    /\ ev.op = "subscribe"
    /\ ev.pre.snapshot # NoSnapshot
    /\ Len(subs[ev.u].got) = 1
    /\ subs[ev.u].got[1].seq = ev.pre.snapshot.seq

\* C3: a LiveState is in the registry with its timer set exactly while it has a
\* subscriber; the unsubscribe that removes the last subscriber clears the timer
\* and the registry entry in that step, any other unsubscribe leaves both alone.
C3_RegisteredWhileSubscribed ==
    /\ \A s \in StateIds :
          IF live[s].subscribers # {}
          THEN states = s /\ live[s].timer
          ELSE states # s /\ ~live[s].timer
    /\ ev.op = "unsubscribe" =>
          IF ev.pre.subscribers = {ev.u}
          THEN states = 0 /\ ~ev.post.timer
          ELSE states = ev.s /\ ev.post.timer = ev.pre.timer

C3_Witness ==
    /\ ev.op = "unsubscribe"
    /\ ev.pre.subscribers = {ev.u}
    /\ ev.pre.timer
    /\ ~ev.post.timer
    /\ states = 0

\* C4 as claimed: once the last subscriber has unsubscribed, no operation starts a
\* ledger fetch for that LiveState, not even a tick or refresh already in progress.
C4_NoFetchAfterStop ==
    ~(FetchStarted /\ ev.op # "subscribe" /\ Stopped(ev.pre))

\* C4 as amended: once the last subscriber has unsubscribed the timer is cleared, no
\* timer tick fires for that LiveState, and the only invocations left for it, hence
\* the only ones that can still start a ledger fetch, are those that were in flight
\* at the moment of the unsubscribe.
C4_OnlyInFlightAfterStop ==
    /\ \A s \in StateIds :
          Stopped(live[s]) => ~live[s].timer /\ TasksOf(s) \subseteq hist[s].atStop
    /\ ev.op = "tick" => ~Stopped(ev.pre)
    /\ (FetchStarted /\ ev.op # "subscribe" /\ Stopped(ev.pre)) => ev.t \in hist[ev.s].atStop

C4_Witness ==
    /\ FetchStarted
    /\ ev.op \in {"tickfp", "buildok"}
    /\ Stopped(ev.pre)
    /\ ev.t \in hist[ev.s].atStop


Last(q) == q[Len(q)]

\* C5: when buildSnapshot succeeds the LiveState takes the new snapshot and the
\* current time as lastRefreshAt; when the refresh then completes, the fingerprint
\* is the fetched one and every subscriber registered at that moment has received
\* the new snapshot, with the in-progress flag still set during the callback and
\* cleared afterwards.
C5_SuccessfulRefresh ==
    /\ ev.op = "buildok" =>
          /\ ev.post.snapshot = ev.snap
          /\ ev.post.lastRefreshAt = now
    /\ ev.op = "refreshfp" =>
          /\ ev.post.snapshot = ev.snap
          /\ ev.post.activityFingerprint = ev.fp
          /\ ev.delivered = ev.pre.subscribers
          /\ \A u \in ev.pre.subscribers :
                Last(subs[u].got) = [seq |-> ev.snap.seq, busy |-> TRUE]
          /\ ~ev.post.isRefreshing

C5_Witness ==
    /\ ev.op = "refreshfp"
    /\ Cardinality(ev.pre.subscribers) = 2
    /\ ev.delivered = ev.pre.subscribers
    /\ ev.post.snapshot.seq = 2

\* C6: when buildSnapshot fails, exactly the current subscribers that supplied an
\* error handler receive the error, and snapshot, fingerprint and lastRefreshAt
\* keep their values, so that a later subscriber is replayed the previous snapshot.
C6_FailedRefresh ==
    ev.op = "buildfail" =>
        /\ ev.errored = {u \in ev.pre.subscribers : subs[u].onError}
        /\ ev.post.snapshot = ev.pre.snapshot
        /\ ev.post.activityFingerprint = ev.pre.activityFingerprint
        /\ ev.post.lastRefreshAt = ev.pre.lastRefreshAt
        /\ ev.pre.snapshot # NoSnapshot =>
              /\ Len(Replay(ev.post)) = 1
              /\ Replay(ev.post)[1].seq = ev.pre.snapshot.seq

C6_Witness ==
    /\ ev.op = "buildfail"
    /\ ev.pre.snapshot # NoSnapshot
    /\ ev.errored # {}
    /\ ev.errored # ev.pre.subscribers
    /\ ev.post.snapshot = ev.pre.snapshot

\* C7: every subscriber receives snapshots in the order in which their refreshes
\* were started.
C7_InOrder ==
    \A u \in SubIds : \A i, j \in 1..Len(subs[u].got) :
        i < j => subs[u].got[i].seq <= subs[u].got[j].seq

C7_Witness ==
    \E u \in SubIds :
        /\ Len(subs[u].got) >= 2
        /\ subs[u].got[1].seq < subs[u].got[2].seq

\* C8 as claimed: a tick at which every tracked wallet's latest signature is the one
\* it had when the stored fingerprint was computed triggers no refresh, whatever
\* fetches fail.
C8_NoSpuriousRefresh ==
    (/\ ev.op = "tickfp"
     /\ ev.pre.activityFingerprint # <<>>
     /\ ~ev.pre.isRefreshing
     /\ latestSig = ev.hpre.sigsAtStore) => ~ev.called

\* C8 as amended: a wallet contributes "error" exactly when its fetch fails, and a
\* tick at which every tracked wallet's latest signature is the one it had when the
\* stored fingerprint was computed triggers a refresh exactly when the set of
\* wallets whose fetch fails differs from the set that failed for the stored one.
C8_ErrorTokenCompared ==
    /\ ev.op \in {"tickfp", "refreshfp"} =>
          \A w \in Wallets : ev.fp[w].kind = "error" <=> w \in ev.failed
    /\ (/\ ev.op = "tickfp"
        /\ ev.pre.activityFingerprint # <<>>
        /\ latestSig = ev.hpre.sigsAtStore)
       => (ev.called <=> ev.failed # ev.hpre.failedAtStore)

C8_Witness ==
    /\ ev.op = "tickfp"
    /\ ev.pre.activityFingerprint # <<>>
    /\ latestSig = ev.hpre.sigsAtStore
    /\ ev.failed # {}
    /\ ev.failed = ev.hpre.failedAtStore
    /\ ~ev.called

\* C27: a call of an unsubscribe function after its first changes neither the
\* registry nor any timer, also when a new LiveState has been registered under
\* the key since; so every running timer belongs to the registered state and
\* at most one timer runs for the key.
C27_UnsubscribeIdempotent ==
    /\ ev.op = "unsubscribeAgain" => (states = ev.registry /\ Timers = ev.timers)
    /\ \A s \in Timers : states = s
    /\ Cardinality(Timers) <= 1

\* C28: each subscriber's onSnapshot is invoked at most once for each snapshot
\* a refresh produced, whenever the subscriber joined.
C28_EachSnapshotDeliveredOnce ==
    \A u \in SubIds : \A i, j \in DOMAIN subs[u].got :
        i # j => subs[u].got[i].seq # subs[u].got[j].seq

\* The tracked wallets whose latest signature the snapshot has not seen.
MissedBy(snapshot) == {w \in Wallets : snapshot.seen[w] < latestSig[w]}

\* C29: no activity is missed by the fingerprint protocol: when a tracked wallet
\* has a latest signature newer than the one the snapshot's buildSnapshot saw,
\* whenever it arrived, a tick that compares fingerprints (its fetches
\* succeeding) finds the fingerprint different from the stored one and triggers
\* a refresh. (The stored fingerprint and the ledger stay as they are between
\* ticks, so a tick that finds them equal is followed only by such ticks until
\* the forced-refresh interval.)
C29_NoActivityMissed ==
    (/\ ev.op = "tickfp"
     /\ ev.failed = {}
     /\ MissedBy(ev.pre.snapshot) # {}) => ev.called

\* The tick found no snapshot, or a snapshot at least forceRefreshMs old.
RefreshDue(l) == l.snapshot = NoSnapshot \/ now - l.lastRefreshAt >= liveForceRefreshMs

\* C30: every refresh that starts eventually clears the in-progress flag,
\* whether buildSnapshot succeeds or fails or a subscriber callback throws, as
\* long as its fetches settle; a failed refresh leaves a state that was due for
\* a refresh due, and every tick on a due state with no refresh in flight
\* starts a new attempt.
C30_FlagEventuallyCleared ==
    /\ \A s \in StateIds : live[s].isRefreshing ~> ~live[s].isRefreshing
    /\ [](ev.op \in {"buildok", "buildfail", "refreshfp", "refreshthrow"} =>
             (ev.post.isRefreshing <=> ev.op = "buildok"))
    /\ []((ev.op = "buildfail" /\ RefreshDue(ev.pre)) => RefreshDue(ev.post))
    /\ []((ev.op = "tick" /\ RefreshDue(ev.pre) /\ ~ev.pre.isRefreshing) =>
             (ev.began /\ tasks[ev.t].pc = "build" /\ live[ev.s].isRefreshing))

\* A refresh whose notification threw in a subscriber's onSnapshot and again in
\* its onError has ended with the flag cleared.
C30_Witness ==
    /\ ev.op = "refreshthrow"
    /\ ev.pre.isRefreshing
    /\ ev.u \in ev.pre.subscribers
    /\ ev.u \notin ev.errored
    /\ subs[ev.u].onError
    /\ ~live[ev.s].isRefreshing

\* C24: a timer tick on a LiveState with no snapshot yet, or with at least
\* forceRefreshMs elapsed since lastRefreshAt, calls refreshState without
\* fetching or comparing a fingerprint, and the refresh starts (flag set,
\* buildSnapshot awaited) unless one is already in flight, in which case the
\* call changes nothing.
C24_StalenessCeiling ==
    (ev.op = "tick" /\ RefreshDue(ev.pre)) =>
        /\ ev.called
        /\ ev.fp = <<>>
        /\ tasks[ev.t].pc # "fp"
        /\ ev.began <=> ~ev.pre.isRefreshing
        /\ ev.began =>
               /\ tasks[ev.t].pc = "build" /\ tasks[ev.t].s = ev.s
               /\ live[ev.s] = [ev.pre EXCEPT !.isRefreshing = TRUE]
               /\ hist[ev.s].refreshes = ev.hpre.refreshes + 1
        /\ ~ev.began =>
               /\ tasks[ev.t] = IdleTask
               /\ live[ev.s] = ev.pre
               /\ hist[ev.s].refreshes = ev.hpre.refreshes

\* A tick exactly forceRefreshMs after the last refresh starts a refresh although
\* the ledger is as it was when the stored fingerprint was computed.
C24_Witness ==
    /\ ev.op = "tick"
    /\ ev.pre.snapshot # NoSnapshot
    /\ now - ev.pre.lastRefreshAt = liveForceRefreshMs
    /\ latestSig = ev.hpre.sigsAtStore
    /\ ev.pre.activityFingerprint = fetchActivityFingerprint({})
    /\ ev.began

\* C25: a timer tick on a LiveState with a snapshot that is not stale fetches
\* the fingerprint of the tracked wallets and calls refreshState if and only if
\* it differs from the stored fingerprint; when it is equal nothing happens:
\* no buildSnapshot, no notification, and snapshot, stored fingerprint and
\* lastRefreshAt stay as they are.
C25_FingerprintDecides ==
    /\ (ev.op = "tick" /\ ~RefreshDue(ev.pre)) =>
           /\ ~ev.called
           /\ tasks[ev.t].pc = "fp" /\ tasks[ev.t].s = ev.s
           /\ live[ev.s] = ev.pre
    /\ ev.op = "tickfp" =>
           /\ ev.fp = fetchActivityFingerprint(ev.failed)
           /\ ev.called <=> ev.fp # ev.pre.activityFingerprint
           /\ ~ev.called =>
                  /\ ~ev.began
                  /\ tasks[ev.t] = IdleTask
                  /\ RefreshesInFlight(ev.s) = {t \in RefreshesInFlight(ev.s) : ev.pre.isRefreshing}
                  /\ ev.delivered = {} /\ ev.errored = {}
                  /\ live[ev.s] \in {ev.pre, Collected}
                  /\ ev.post.snapshot = ev.pre.snapshot
                  /\ ev.post.activityFingerprint = ev.pre.activityFingerprint
                  /\ ev.post.lastRefreshAt = ev.pre.lastRefreshAt

\* A tick whose fingerprint equals the stored one, on a state with subscribers.
C25_Witness ==
    /\ ev.op = "tickfp"
    /\ ~ev.called
    /\ ev.pre.snapshot # NoSnapshot
    /\ ev.pre.subscribers # {}
    /\ ev.fp = ev.pre.activityFingerprint
    /\ live[ev.s] = ev.pre


(***************************************************************************)
(* The result caches: lib/snapshot-cache with the snapshot route as its    *)
(* caller, and boardCache inside buildHighVolumeBoard.                     *)
(*                                                                         *)
(* Strings are sequences of one-character strings, so that the cache keys  *)
(* are built the way the code builds them.                                 *)
(***************************************************************************)
MaxCacheAdvances == 2   \* clock advances of each step size in the cache specification
MaxPending == 1         \* requests suspended in their fetches at a time

\* appConfig, with no override in the environment.
holderLimit == 120
edgeWalletLimit == 30
txLimit == 120
maxSignatures == 1500
snapshotTtlMs == 1800000
CACHE_TTL_MS == 6000
DEFAULT_LIMIT_PER_PROGRAM == 80
DEFAULT_MIN_TOTAL_GOR == 25000

None == 0 - 1

DigitChars == <<"0", "1", "2", "3", "4", "5", "6", "7", "8", "9">>

\* String(n) / `${n}` of a non-negative integer.
RECURSIVE ToDecimal(_)
ToDecimal(n) ==
    IF n < 10 THEN <<DigitChars[n + 1]>>
    ELSE Append(ToDecimal(n \div 10), DigitChars[(n % 10) + 1])

\* Array.prototype.join(sep) on an array of strings.
RECURSIVE Join(_, _)
Join(parts, sep) ==
    IF Len(parts) = 0 THEN <<>>
    ELSE IF Len(parts) = 1 THEN parts[1]
    ELSE parts[1] \o sep \o Join(Tail(parts), sep)

\* clamp and parseLimitParam of lib/config; a missing parameter is None.
clamp(value, min, max) ==
    LET lower == IF value > min THEN value ELSE min
    IN  IF lower < max THEN lower ELSE max

parseLimitParam(value, fallback, min, max) ==
    IF value = None THEN fallback ELSE clamp(value, min, max)

\* normalizeSnapshotOptions over what the route parsed from the query.
RouteOptions(n) ==
    [holderLimit |-> parseLimitParam(n, holderLimit, 20, 300),
     edgeWalletLimit |-> parseLimitParam(None, edgeWalletLimit, 5, 80),
     txLimit |-> parseLimitParam(None, txLimit, 20, 400),
     maxSignatures |-> parseLimitParam(None, maxSignatures, 100, 5000)]

\* [mint, holderLimit, edgeWalletLimit, txLimit, maxSignatures].join(":")
buildSnapshotCacheKey(mint, options) ==
    Join(<<mint, ToDecimal(options.holderLimit), ToDecimal(options.edgeWalletLimit),
           ToDecimal(options.txLimit), ToDecimal(options.maxSignatures)>>, <<":">>)

(***************************************************************************)
(* minTotalGor is a float. Its values are counted in units of 0.00002 GOR, *)
(* fine enough to tell apart values that toFixed(4) prints alike, and      *)
(* never half-way between two 4-digit decimals.                            *)
(***************************************************************************)
UnitsPerGor == 5 * 10000

Pad4(digits) ==
    IF Len(digits) >= 4 THEN digits
    ELSE SubSeq(<<"0", "0", "0">>, 1, 4 - Len(digits)) \o digits

\* Number.prototype.toFixed(4): rounded to the nearest multiple of 0.0001.
toFixed4(units) ==
    LET tenThousandths == (units \div UnitsPerGor) * 10000
                          + (2 * (units % UnitsPerGor) + 5) \div 10
    IN  ToDecimal(tenThousandths \div 10000) \o <<".">>
        \o Pad4(ToDecimal(tenThousandths % 10000))

\* normalizeMinTotalGor with HIGH_VOLUME_MIN_TOTAL_GOR unset.
normalizeMinTotalGor(value) ==
    IF value # None /\ value >= 0 THEN value ELSE DEFAULT_MIN_TOTAL_GOR * UnitsPerGor

\* safeLimit, safePerProgramLimit, safeMinTotalGor
BoardOptions(limit, perProgramLimit, minTotalGor) ==
    [limit |-> IF limit > 1 THEN limit ELSE 1,
     perProgramLimit |-> IF perProgramLimit > 10 THEN perProgramLimit ELSE 10,
     minTotalGor |-> normalizeMinTotalGor(minTotalGor)]

\* `${safeLimit}:${safePerProgramLimit}:${safeMinTotalGor.toFixed(4)}`
boardCacheKey(options) ==
    Join(<<ToDecimal(options.limit), ToDecimal(options.perProgramLimit),
           toFixed4(options.minTotalGor)>>, <<":">>)

(***************************************************************************)
(* Map operations on a set of entries with distinct keys.                  *)
(***************************************************************************)
MapHas(map, key) == \E e \in map : e.key = key
MapGet(map, key) == CHOOSE e \in map : e.key = key
MapDelete(map, key) == {e \in map : e.key # key}
MapSet(map, entry) == MapDelete(map, entry.key) \cup {entry}

\* History: what a map holds under a key.
EntriesOf(map, key) == {e \in map : e.key = key}


(***************************************************************************)
(* Requests. A result carries the effective options it was computed for    *)
(* and the time it was computed at.                                        *)
(***************************************************************************)
Mints == {<<>>, <<"A">>}
HolderParams == {None, 5}
BoardLimits == {0}
MinTotalGors == {None, 1, 2}

Ttl(kind) == IF kind = "snapshot" THEN snapshotTtlMs ELSE CACHE_TTL_MS

NoCacheEvent ==
    [op |-> "init", kind |-> "", key |-> <<>>, opts |-> <<>>, force |-> FALSE,
     looked |-> FALSE, served |-> <<>>, evicted |-> FALSE, returned |-> <<>>,
     before |-> {}, after |-> {}, at |-> 0, held |-> {}, failed |-> "", issued |-> <<>>]

CacheEvent(op, kind, key, opts) ==
    [NoCacheEvent EXCEPT !.op = op, !.kind = kind, !.key = key, !.opts = opts]

ExpiredLate(entry) == entry.expiresAt < now

\* getCachedSnapshot: entry.expiresAt <= Date.now()
Expired(entry) == entry.expiresAt <= now

\* getCachedSnapshot: the snapshot served (<<>> for null).
getCachedSnapshot(key) ==
    IF MapHas(cache, key) /\ ~Expired(MapGet(cache, key))
    THEN <<MapGet(cache, key).snapshot>>
    ELSE <<>>

\* getCachedSnapshot: cache.delete(key) on an expired entry.
CacheAfterLookup(key) ==
    IF MapHas(cache, key) /\ Expired(MapGet(cache, key))
    THEN MapDelete(cache, key)
    ELSE cache

\* if (!mint): the route's 400 answer.
SnapshotGetNoMint(mint) ==
    /\ mint = <<>>
    /\ ev' = CacheEvent("badrequest", "snapshot", <<>>, <<>>)
    /\ UNCHANGED <<pureVars, liveVars, now, cacheVars>>

\* The route without refresh=1, up to its answer from the cache or to its await.
SnapshotGet(mint, n) ==
    /\ mint # <<>>
    /\ LET options == RouteOptions(n)
           key == buildSnapshotCacheKey(mint, options)
           cached == getCachedSnapshot(key)
           request == [kind |-> "snapshot", key |-> key, force |-> FALSE,
                       opts |-> [mint |-> mint, options |-> options],
                       before |-> EntriesOf(cache, key), at |-> now,
                       after |-> EntriesOf(CacheAfterLookup(key), key)]
       IN  /\ cached = <<>> => Cardinality(pending) < MaxPending
           /\ cache' = CacheAfterLookup(key)
           /\ pending' = IF cached = <<>> THEN pending \cup {request} ELSE pending
           /\ ev' = [CacheEvent("get", "snapshot", key, request.opts) EXCEPT
                        !.looked = TRUE, !.served = cached, !.returned = cached,
                        !.evicted = cache' # cache]
    /\ UNCHANGED <<pureVars, liveVars, now, boardCache, written, programs>>

\* The route with refresh=1: no lookup.
SnapshotGetForced(mint, n) ==
    /\ mint # <<>>
    /\ Cardinality(pending) < MaxPending
    /\ LET options == RouteOptions(n)
           key == buildSnapshotCacheKey(mint, options)
           request == [kind |-> "snapshot", key |-> key, force |-> TRUE,
                       opts |-> [mint |-> mint, options |-> options],
                       before |-> EntriesOf(cache, key), at |-> now,
                       after |-> EntriesOf(cache, key)]
       IN  /\ pending' = pending \cup {request}
           /\ ev' = [CacheEvent("get", "snapshot", key, request.opts) EXCEPT !.force = TRUE]
    /\ UNCHANGED <<pureVars, liveVars, now, cache, boardCache, written, programs>>

\* setCachedSnapshot: expiresAt is Date.now() + appConfig.snapshotTtlMs
setCachedSnapshot(key, snapshot) ==
    MapSet(cache, [key |-> key, snapshot |-> snapshot, expiresAt |-> now + snapshotTtlMs])

\* buildSnapshot resolved: the route writes the snapshot and answers with it.
SnapshotBuilt(request) ==
    /\ request \in pending
    /\ request.kind = "snapshot"
    /\ LET snapshot == [opts |-> request.opts, at |-> now]
       IN  /\ cache' = setCachedSnapshot(request.key, snapshot)
           /\ written' = [written EXCEPT !.snapshot =
                             MapSet(@, [key |-> request.key, value |-> snapshot, at |-> now])]
           /\ ev' = [CacheEvent("write", "snapshot", request.key, request.opts) EXCEPT
                        !.force = request.force, !.returned = <<snapshot>>]
    /\ pending' = pending \ {request}
    /\ UNCHANGED <<pureVars, liveVars, now, boardCache, programs>>

\* The awaits of buildSnapshot, in its order.
BuildFetches == <<"mintMetadata", "holders", "signatures", "transactions">>

issuedThrough(failed) == SubSeq(BuildFetches, 1, failed + 1)

\* The fetches buildSnapshot has issued when fetch number failed rejects.
issuedBefore(failed) == SubSeq(BuildFetches, 1, failed)

\* buildSnapshot rejected in one of its fetches: the route answers 500 and leaves
\* the cache alone.
SnapshotFailed(request, failed) ==
    /\ request \in pending
    /\ request.kind = "snapshot"
    /\ pending' = pending \ {request}
    /\ ev' = [CacheEvent("fail", "snapshot", request.key, request.opts) EXCEPT
                 !.force = request.force, !.before = request.before,
                 !.after = request.after, !.at = request.at,
                 !.held = EntriesOf(cache, request.key),
                 !.failed = BuildFetches[failed], !.issued = issuedBefore(failed)]
    /\ UNCHANGED <<pureVars, liveVars, now, cache, boardCache, written, programs>>


(***************************************************************************)
(* buildHighVolumeBoard.                                                   *)
(***************************************************************************)
\* cachedBoard.expiresAt > Date.now()
BoardFresh(entry) == entry.expiresAt > now

\* The board served from boardCache (<<>> when the lookup does not return).
cachedBoard(key) ==
    IF MapHas(boardCache, key) /\ BoardFresh(MapGet(boardCache, key))
    THEN <<MapGet(boardCache, key).snapshot>>
    ELSE <<>>

\* The board returned when getProgramSources() is empty: no entries, and
\* minTotalGor: safeMinTotalGor.
emptyBoard(options) == [opts |-> options, at |-> now]

\* forceRefresh = false, up to the return from the cache, the return of the empty
\* board when no program is configured, or the first await.
BoardGet(limit, minTotalGor) ==
    /\ LET options == BoardOptions(limit, DEFAULT_LIMIT_PER_PROGRAM, minTotalGor)
           key == boardCacheKey(options)
           cached == cachedBoard(key)
           request == [kind |-> "board", key |-> key, force |-> FALSE, opts |-> options,
                       before |-> EntriesOf(boardCache, key), at |-> now,
                       after |-> EntriesOf(boardCache, key)]
           fetches == cached = <<>> /\ programs
       IN  /\ fetches => Cardinality(pending) < MaxPending
           /\ pending' = IF fetches THEN pending \cup {request} ELSE pending
           /\ ev' = [CacheEvent("get", "board", key, options) EXCEPT
                        !.looked = TRUE, !.served = cached,
                        !.returned = IF cached # <<>> \/ programs THEN cached
                                     ELSE <<emptyBoard(options)>>]
    /\ UNCHANGED <<pureVars, liveVars, now, cache, boardCache, written, programs>>

\* forceRefresh = true: no lookup.
BoardGetForced(limit, minTotalGor) ==
    /\ LET options == BoardOptions(limit, DEFAULT_LIMIT_PER_PROGRAM, minTotalGor)
           key == boardCacheKey(options)
           request == [kind |-> "board", key |-> key, force |-> TRUE, opts |-> options,
                       before |-> EntriesOf(boardCache, key), at |-> now,
                       after |-> EntriesOf(boardCache, key)]
       IN  /\ programs => Cardinality(pending) < MaxPending
           /\ pending' = IF programs THEN pending \cup {request} ELSE pending
           /\ ev' = [CacheEvent("get", "board", key, options) EXCEPT
                        !.force = TRUE,
                        !.returned = IF programs THEN <<>> ELSE <<emptyBoard(options)>>]
    /\ UNCHANGED <<pureVars, liveVars, now, cache, boardCache, written, programs>>

\* boardCache.set(cacheKey, { snapshot, expiresAt: Date.now() + CACHE_TTL_MS })
boardCacheSet(key, snapshot) ==
    MapSet(boardCache, [key |-> key, snapshot |-> snapshot, expiresAt |-> now + CACHE_TTL_MS])

\* The fetches have settled (each failure is caught): the board is ranked and cached.
BoardBuilt(request) ==
    /\ request \in pending
    /\ request.kind = "board"
    /\ LET snapshot == [opts |-> request.opts, at |-> now]
       IN  /\ boardCache' = boardCacheSet(request.key, snapshot)
           /\ written' = [written EXCEPT !.board =
                             MapSet(@, [key |-> request.key, value |-> snapshot, at |-> now])]
           /\ ev' = [CacheEvent("write", "board", request.key, request.opts) EXCEPT
                        !.force = request.force, !.returned = <<snapshot>>]
    /\ pending' = pending \ {request}
    /\ UNCHANGED <<pureVars, liveVars, now, cache, programs>>

(***************************************************************************)
(* The clock of the cache specification advances by half a TTL of either   *)
(* cache, so that a lookup can fall exactly on an expiry.                  *)
(***************************************************************************)
SnapshotStep == snapshotTtlMs \div 2
BoardStep == CACHE_TTL_MS \div 2

CacheAdvance(step) ==
    /\ now \div SnapshotStep + (now % SnapshotStep) \div BoardStep < MaxCacheAdvances
    /\ now' = now + step
    /\ ev' = CacheEvent("advance", "", <<>>, <<>>)
    /\ UNCHANGED <<pureVars, liveVars, cacheVars>>

CacheInit ==
    /\ LiveInit
    /\ PureIdle
    /\ cache = {}
    /\ boardCache = {}
    /\ pending = {}
    /\ written = [snapshot |-> {}, board |-> {}]
    /\ programs \in BOOLEAN
    /\ now = 0
    /\ ev = NoCacheEvent

CacheNext ==
    \/ \E mint \in Mints : SnapshotGetNoMint(mint)
    \/ \E mint \in Mints, n \in HolderParams : SnapshotGet(mint, n)
    \/ \E mint \in Mints, n \in HolderParams : SnapshotGetForced(mint, n)
    \/ \E request \in pending : SnapshotBuilt(request)
    \/ \E request \in pending, failed \in {1, 2} : SnapshotFailed(request, failed)
    \/ \E limit \in BoardLimits, minTotalGor \in MinTotalGors : BoardGet(limit, minTotalGor)
    \/ \E limit \in BoardLimits, minTotalGor \in MinTotalGors : BoardGetForced(limit, minTotalGor)
    \/ \E request \in pending : BoardBuilt(request)
    \/ \E step \in {BoardStep, SnapshotStep} : CacheAdvance(step)

CacheSpec == CacheInit /\ [][CacheNext]_vars


(***************************************************************************)
(* Properties of the result caches (CacheSpec).                            *)
(***************************************************************************)
CacheOf(kind) == IF kind = "snapshot" THEN cache ELSE boardCache

LastWrite(kind, key) == MapGet(written[kind], key)

FreshWrite(kind, key) ==
    /\ MapHas(written[kind], key)
    /\ now < LastWrite(kind, key).at + Ttl(kind)

\* C9: in both caches a lookup of key k returns the value of the most recent
\* write to k if and only if the time is strictly before that write's time plus
\* the TTL and returns absent otherwise, and a write leaves under its key the
\* written value with expiry now + TTL.
C9_ServedUntilExpiry ==
    /\ (ev.op = "get" /\ ev.looked) =>
           ev.served = IF FreshWrite(ev.kind, ev.key)
                       THEN <<LastWrite(ev.kind, ev.key).value>>
                       ELSE <<>>
    /\ ev.op = "write" =>
           /\ MapHas(CacheOf(ev.kind), ev.key)
           /\ MapGet(CacheOf(ev.kind), ev.key).expiresAt = now + Ttl(ev.kind)
           /\ MapGet(CacheOf(ev.kind), ev.key).snapshot = LastWrite(ev.kind, ev.key).value
           /\ LastWrite(ev.kind, ev.key).at = now

\* A lookup exactly at the expiry of the last write of its key answers absent.
C9_Witness ==
    /\ ev.op = "get"
    /\ ev.looked
    /\ MapHas(written[ev.kind], ev.key)
    /\ now = LastWrite(ev.kind, ev.key).at + Ttl(ev.kind)
    /\ ev.served = <<>>

\* C10: a lookup never returns a result that was computed for effective options
\* other than those of the request (requests with different effective options
\* have different cache keys).
C10_NoKeyCollision ==
    (ev.op = "get" /\ ev.served # <<>>) => ev.served[1].opts = ev.opts


\* C11: a request with the forced-refresh flag never looks the cache up and is
\* never answered from it, and every forced request that returns a result
\* leaves that result in the cache under the request's key with expiry
\* now + TTL.
C11_ForcedRefreshWritesBack ==
    /\ (ev.op = "get" /\ ev.force) => (~ev.looked /\ ev.served = <<>>)
    /\ (ev.force /\ ev.returned # <<>>) =>
           /\ MapHas(CacheOf(ev.kind), ev.key)
           /\ MapGet(CacheOf(ev.kind), ev.key).snapshot = ev.returned[1]
           /\ MapGet(CacheOf(ev.kind), ev.key).expiresAt = now + Ttl(ev.kind)


\* C26: in both caches, after a lookup of a key that returned absent the map
\* holds no expired entry under that key: the lookup has removed it.
C26_ExpiredEntryRemovedByLookup ==
    (ev.op = "get" /\ ev.looked /\ ev.served = <<>>) =>
        \A entry \in EntriesOf(CacheOf(ev.kind), ev.key) : entry.expiresAt > now

\* The snapshot request just answered with the error of a rejected mint-metadata
\* fetch.
MintMetadataFailed == ev.op = "fail" /\ ev.kind = "snapshot" /\ ev.failed = "mintMetadata"

\* C23 as stated: when the mint-metadata fetch rejects, buildSnapshot has issued
\* no holder or signature fetch, the caller gets the error, and the snapshot
\* cache holds under the request's key exactly what it held before the request:
\* no entry written, none removed.
C23_FailedRequestLeavesKeyUntouched ==
    MintMetadataFailed =>
        /\ ev.issued = <<"mintMetadata">>
        /\ ev.returned = <<>>
        /\ EntriesOf(cache, ev.key) = ev.held
        /\ ev.after = ev.before

\* C23 amended: when the mint-metadata fetch rejects, buildSnapshot has issued
\* no holder or signature fetch, the caller gets the error, and the failure
\* itself writes and removes nothing; the only change the request makes under
\* its key is the one of its own lookup, which (without the forced-refresh
\* flag) has removed the entry if it had expired.
C23_FailedBuildWritesNothing ==
    MintMetadataFailed =>
        /\ ev.issued = <<"mintMetadata">>
        /\ ev.returned = <<>>
        /\ EntriesOf(cache, ev.key) = ev.held
        /\ ev.after = IF ~ev.force /\ \E entry \in ev.before : entry.expiresAt <= ev.at
                      THEN {}
                      ELSE ev.before

\* A request that found an expired entry under its key, removed it in its
\* lookup, and then failed in the mint-metadata fetch.
C23_Witness ==
    /\ MintMetadataFailed
    /\ ev.before # {}
    /\ ev.after = {}
    /\ EntriesOf(cache, ev.key) = {}


(***************************************************************************)
(* JavaScript numbers. A Number is a binary floating-point value m * 2^e   *)
(* with a mantissa of MantissaBits bits (53 in the program), every         *)
(* operation rounding its exact result to the nearest value, ties to the   *)
(* even mantissa. Only values >= 0 are needed here.                        *)
(***************************************************************************)
MantissaBits == 8   \* bits of the mantissa of a modelled Number

RECURSIVE Pow2(_)
Pow2(k) == IF k <= 0 THEN 1 ELSE 2 * Pow2(k - 1)

Zero == [m |-> 0, e |-> 0]

\* The Number nearest to (n / d) * 2^e, for n >= 0 and d > 0.
RECURSIVE RoundRat(_, _, _)
RoundRat(n, d, e) ==
    IF n = 0 THEN Zero
    ELSE IF n >= d * Pow2(MantissaBits) THEN RoundRat(n, 2 * d, e + 1)
    ELSE IF n < d * Pow2(MantissaBits - 1) THEN RoundRat(2 * n, d, e - 1)
    ELSE LET q == n \div d
             r == n % d
             m == IF 2 * r > d \/ (2 * r = d /\ q % 2 = 1) THEN q + 1 ELSE q
         IN  IF m = Pow2(MantissaBits)
             THEN [m |-> Pow2(MantissaBits - 1), e |-> e + 1]
             ELSE [m |-> m, e |-> e]

\* Number(n) of a bigint n >= 0
Number(n) == RoundRat(n, 1, 0)

\* a / b
NumDiv(a, b) == RoundRat(a.m, b.m, a.e - b.e)

\* a * b
NumMul(a, b) == RoundRat(a.m * b.m, 1, a.e + b.e)

\* a + b
NumAdd(a, b) ==
    LET e == IF a.e < b.e THEN a.e ELSE b.e
    IN  RoundRat(a.m * Pow2(a.e - e) + b.m * Pow2(b.e - e), 1, e)

\* a <= num / den, exactly
NumLeqRat(a, num, den) ==
    IF a.e >= 0 THEN a.m * Pow2(a.e) * den <= num
    ELSE a.m * den <= num * Pow2(0 - a.e)

RECURSIVE Pow10(_)
Pow10(k) == IF k <= 0 THEN 1 ELSE 10 * Pow10(k - 1)

\* lib/math toUiAmount
toUiAmount(amountRaw, decimals) ==
    IF decimals <= 0 THEN Number(amountRaw)
    ELSE LET divisor == Pow10(decimals)
             whole == amountRaw \div divisor
             fractional == amountRaw % divisor
         IN  NumAdd(Number(whole), NumDiv(Number(fractional), Number(divisor)))

toPctSupplyFraction(balance, supply) ==
    IF supply.m <= 0 THEN Zero ELSE NumDiv(balance, supply)

\* lib/math toPctSupply (the modelled Numbers are all finite)
toPctSupply(balance, supply) ==
    IF supply.m <= 0 THEN Zero
    ELSE NumMul(NumDiv(balance, supply), Number(100))


(***************************************************************************)
(* buildSnapshot: the holders of the mint.                                 *)
(***************************************************************************)
MaxAccounts == 3   \* token accounts getParsedProgramAccounts returns

Owners == {"A", "B", "C"}
Amounts == {0, 1, 2}

\* The parsed token accounts: an owner and a raw amount, or an account whose
\* parsed info lacks the owner ("") or the amount (None).
TokenAccounts ==
    [owner : Owners, amount : Amounts]
        \cup {[owner |-> "", amount |-> 1], [owner |-> "A", amount |-> None]}

HolderLimits == {1, 2, 3}
EdgeWalletLimits == {1, 2}
Decimals == {0, 1}
Supplies == {0, 3}

\* Index of the entry of a key in a Map kept as the sequence of its entries (0: none).
MapIndex(map, key, field) ==
    IF \E i \in 1..Len(map) : map[i][field] = key
    THEN CHOOSE i \in 1..Len(map) : map[i][field] = key
    ELSE 0

\* One iteration of the loop over tokenAccounts.
holdersSet(map, tokenAccount) ==
    LET owner == tokenAccount.owner
        amountRaw == tokenAccount.amount
        i == MapIndex(map, owner, "owner")
    IN  IF owner = "" \/ amountRaw = None THEN map
        ELSE IF i = 0 THEN Append(map, [owner |-> owner, balance |-> amountRaw])
        ELSE [map EXCEPT ![i].balance = @ + amountRaw]

\* fetchHolderBalancesByOwner over the accounts the RPC returned.
RECURSIVE fetchHolderBalancesByOwner(_)
fetchHolderBalancesByOwner(accounts) ==
    IF accounts = <<>> THEN <<>>
    ELSE holdersSet(fetchHolderBalancesByOwner(SubSeq(accounts, 1, Len(accounts) - 1)),
                    accounts[Len(accounts)])

sortInsertFirst(sorted, holder) == <<holder>> \o sorted

\* Array.prototype.sort is stable: a holder goes behind every holder that does not
\* compare after it (balance greater or equal).
sortInsert(sorted, holder) ==
    LET k == Cardinality({i \in 1..Len(sorted) : sorted[i].balance >= holder.balance})
    IN  SubSeq(sorted, 1, k) \o <<holder>> \o SubSeq(sorted, k + 1, Len(sorted))

\* [...holderBalances.entries()].sort(...): by balance, descending.
RECURSIVE sortedHolders(_)
sortedHolders(entries) ==
    IF entries = <<>> THEN <<>>
    ELSE sortInsert(sortedHolders(SubSeq(entries, 1, Len(entries) - 1)),
                    entries[Len(entries)])

\* Array.prototype.slice(0, end) for end >= 0
slice(array, end) == SubSeq(array, 1, IF end < Len(array) THEN end ELSE Len(array))

\* The map callback that makes a SnapshotNode of a holder.
toNode(holder, metadata) ==
    LET balance == toUiAmount(holder.balance, metadata.decimals)
    IN  [address |-> holder.owner,
         balance |-> balance,
         pctSupply |-> toPctSupply(balance, metadata.supply)]

snapshotNodes(holderBalances, options, metadata) ==
    LET kept == slice(sortedHolders(holderBalances), options.holderLimit)
    IN  [i \in 1..Len(kept) |-> toNode(kept[i], metadata)]

\* await fetchHolderBalancesByOwner(...) has answered.
FetchHolders ==
    /\ buildPc = "start"
    /\ holders' = fetchHolderBalancesByOwner(tokenAccounts)
    /\ buildPc' = "holders"
    /\ UNCHANGED <<liveVars, cacheVars, scanVars, tradeVars, now, ev, tokenAccounts, mintMetadata,
                   normalizedOptions, nodes, instructions, transferEvents, edges>>

\* The synchronous run from the sort to the call of collectTransferEventsForMint.
EmitNodes ==
    /\ buildPc = "holders"
    /\ nodes' = snapshotNodes(holders, normalizedOptions, mintMetadata)
    /\ buildPc' = "nodes"
    /\ UNCHANGED <<liveVars, cacheVars, scanVars, tradeVars, now, ev, tokenAccounts, mintMetadata,
                   normalizedOptions, holders, instructions, transferEvents, edges>>

\* A run of buildSnapshot whose mint metadata has been fetched, for every answer
\* of the RPC within the bounds.
HolderInit ==
    /\ LiveInit
    /\ CacheIdle
    /\ now = 0
    /\ ev = NoEvent
    /\ ScanIdle
    /\ TradeIdle
    /\ tokenAccounts \in UNION {[1..n -> TokenAccounts] : n \in 0..MaxAccounts}
    /\ mintMetadata \in {[supplyRaw |-> s, decimals |-> d, supply |-> toUiAmount(s, d)] :
                           s \in Supplies, d \in Decimals}
    /\ normalizedOptions \in [holderLimit : HolderLimits, edgeWalletLimit : EdgeWalletLimits]
    /\ holders = <<>>
    /\ nodes = <<>>
    /\ instructions = <<>>
    /\ transferEvents = <<>>
    /\ edges = <<>>
    /\ buildPc = "start"

HolderNext ==
    \/ FetchHolders
    \/ EmitNodes

HolderSpec == HolderInit /\ [][HolderNext]_vars


(***************************************************************************)
(* buildSnapshot: the transfer edges.                                      *)
(***************************************************************************)
MaxInstructions == 2   \* parsed instructions in the transactions fetched

\* The owners that instructions name: two holders and a wallet that holds nothing.
TransferOwners == {"A", "B", "Z"}

\* A parsed instruction, with its token accounts resolved by extractTokenAccountMetadata:
\* from and to are sourceMeta?.owner and destinationMeta?.owner ("" when unknown),
\* amount is parseAmountRaw (None for null), mint is the resolved transferMint
\* ("" when none).
Transfer(from, to, amount) ==
    [type |-> "transfer", from |-> from, to |-> to, amount |-> amount, mint |-> "target"]

Instructions ==
    {Transfer(from, to, 1) : from, to \in TransferOwners}
        \cup {Transfer("A", "B", 2), Transfer("A", "B", 0), Transfer("A", "B", None),
              Transfer("", "B", 1), Transfer("A", "", 1),
              [Transfer("A", "B", 1) EXCEPT !.type = "burn"],
              [Transfer("A", "B", 1) EXCEPT !.mint = "other"],
              [Transfer("A", "B", 1) EXCEPT !.mint = ""]}

\* instructionType.startsWith("transfer")
startsWithTransfer(type) == type \in {"transfer", "transferChecked"}

\* The body of the loop over the instructions of a transaction.
transferEventOf(instruction) ==
    IF ~startsWithTransfer(instruction.type) THEN <<>>
    ELSE IF instruction.amount = None \/ instruction.amount <= 0 THEN <<>>
    ELSE IF instruction.mint = "" \/ instruction.mint # "target" THEN <<>>
    ELSE IF instruction.from = "" \/ instruction.to = "" \/ instruction.from = instruction.to
         THEN <<>>
    ELSE <<[from |-> instruction.from, to |-> instruction.to,
            amountRaw |-> instruction.amount]>>

\* collectTransferEventsForMint over the instructions of the transactions fetched.
RECURSIVE collectTransferEvents(_)
collectTransferEvents(parsed) ==
    IF parsed = <<>> THEN <<>>
    ELSE transferEventOf(Head(parsed)) \o collectTransferEvents(Tail(parsed))

\* nodes.slice(0, edgeWalletLimit).map((node) => node.address)
topWalletsForEdges(nodeList, options) ==
    LET top == slice(nodeList, options.edgeWalletLimit)
    IN  [i \in 1..Len(top) |-> top[i].address]

\* new Set(nodes.map((node) => node.address))
includedWallets(nodeList) == {nodeList[i].address : i \in 1..Len(nodeList)}

edgeMapKeepFirst(edgeMap, event, included) ==
    LET key == <<event.from, event.to>>
    IN  IF MapIndex(edgeMap, key, "key") # 0 THEN edgeMap
        ELSE Append(edgeMap, [key |-> key, from |-> event.from, to |-> event.to,
                              amountRaw |-> event.amountRaw, txCount |-> 1])

\* The body of the loop over transferEvents. The key `${from}:${to}` of two
\* addresses (base58, without ":") is the ordered pair.
edgeMapAdd(edgeMap, event, included) ==
    LET key == <<event.from, event.to>>
        i == MapIndex(edgeMap, key, "key")
    IN  IF event.from \notin included \/ event.to \notin included THEN edgeMap
        ELSE IF i = 0
        THEN Append(edgeMap, [key |-> key, from |-> event.from, to |-> event.to,
                              amountRaw |-> event.amountRaw, txCount |-> 1])
        ELSE [edgeMap EXCEPT ![i].amountRaw = @ + event.amountRaw, ![i].txCount = @ + 1]

RECURSIVE edgeMapOf(_, _)
edgeMapOf(events, included) ==
    IF events = <<>> THEN <<>>
    ELSE edgeMapAdd(edgeMapOf(SubSeq(events, 1, Len(events) - 1), included),
                    events[Len(events)], included)

\* a < b
NumLess(a, b) ==
    LET e == IF a.e < b.e THEN a.e ELSE b.e
    IN  a.m * Pow2(a.e - e) < b.m * Pow2(b.e - e)

\* The edge comparator puts a before b: amountSum descending, then txCount descending.
edgeBefore(a, b) ==
    \/ NumLess(b.amountSum, a.amountSum)
    \/ a.amountSum = b.amountSum /\ a.txCount > b.txCount

edgeInsert(sorted, edge) ==
    LET k == Cardinality({i \in 1..Len(sorted) : ~edgeBefore(edge, sorted[i])})
    IN  SubSeq(sorted, 1, k) \o <<edge>> \o SubSeq(sorted, k + 1, Len(sorted))

RECURSIVE sortedEdges(_)
sortedEdges(list) ==
    IF list = <<>> THEN <<>>
    ELSE edgeInsert(sortedEdges(SubSeq(list, 1, Len(list) - 1)), list[Len(list)])

\* The edges of the snapshot: edgeMap's values as SnapshotEdge, sorted.
snapshotEdges(events, nodeList, metadata) ==
    LET edgeMap == edgeMapOf(events, includedWallets(nodeList))
    IN  sortedEdges([i \in 1..Len(edgeMap) |->
                        [from |-> edgeMap[i].from, to |-> edgeMap[i].to,
                         txCount |-> edgeMap[i].txCount,
                         amountSum |-> toUiAmount(edgeMap[i].amountRaw, metadata.decimals)]])

\* await collectTransferEventsForMint(...) has answered, for the instructions of
\* the transactions it fetched (none when there is no wallet to scan).
CollectTransfers(parsed) ==
    /\ buildPc = "nodes"
    /\ topWalletsForEdges(nodes, normalizedOptions) = <<>> => parsed = <<>>
    /\ instructions' = parsed
    /\ transferEvents' = collectTransferEvents(parsed)
    /\ buildPc' = "transfers"
    /\ UNCHANGED <<liveVars, cacheVars, scanVars, tradeVars, now, ev, tokenAccounts, mintMetadata,
                   normalizedOptions, holders, nodes, edges>>

\* The synchronous run from includedWallets to the return of the snapshot.
BuildEdges ==
    /\ buildPc = "transfers"
    /\ edges' = snapshotEdges(transferEvents, nodes, mintMetadata)
    /\ buildPc' = "done"
    /\ UNCHANGED <<liveVars, cacheVars, scanVars, tradeVars, now, ev, tokenAccounts, mintMetadata,
                   normalizedOptions, holders, nodes, instructions, transferEvents>>

\* A run of buildSnapshot over a mint whose accounts all carry an owner and a
\* positive amount.
EdgeInit ==
    /\ LiveInit
    /\ CacheIdle
    /\ now = 0
    /\ ev = NoEvent
    /\ ScanIdle
    /\ TradeIdle
    /\ tokenAccounts \in UNION {[1..n -> [owner : Owners, amount : {1, 2}]] :
                                   n \in 0..MaxAccounts}
    /\ mintMetadata \in {[supplyRaw |-> 3, decimals |-> d, supply |-> toUiAmount(3, d)] :
                           d \in Decimals}
    /\ normalizedOptions \in [holderLimit : {2}, edgeWalletLimit : EdgeWalletLimits]
    /\ holders = <<>>
    /\ nodes = <<>>
    /\ instructions = <<>>
    /\ transferEvents = <<>>
    /\ edges = <<>>
    /\ buildPc = "start"

EdgeNext ==
    \/ FetchHolders
    \/ EmitNodes
    \/ \E parsed \in UNION {[1..n -> Instructions] : n \in 0..MaxInstructions} :
           CollectTransfers(parsed)
    \/ BuildEdges

EdgeSpec == EdgeInit /\ [][EdgeNext]_vars

(***************************************************************************)
(* The signature scan: collectRecentSignatures and the chunked             *)
(* getParsedTransactions of collectTransferEventsForMint (buildSnapshot),  *)
(* and the same two stages of buildHighVolumeBoard. The fetches of a batch *)
(* run concurrently and settle in any order.                               *)
(***************************************************************************)
NumSources == 2   \* wallets scanned, or programs configured

walletBatchSize == 8
chunkSize == 25

Sources == 1..NumSources

\* The tag of a program: the first is a bang.meme program, the others trashbin.fun.
sourceTag(program) == IF program = 1 THEN "bang.meme" ELSE "trashbin.fun"

Sig(signature, blockTime) == [signature |-> signature, blockTime |-> blockTime]

Rejected == [ok |-> FALSE, items |-> <<>>]
Resolved(items) == [ok |-> TRUE, items |-> items]

\* What getSignaturesForAddress may answer: a rejection or a list of signatures
\* with their block times (None: null), one of them of 26 signatures.
SignatureAnswers ==
    {Rejected, Resolved(<<>>), Resolved(<<Sig(1, 5)>>), Resolved(<<Sig(2, 5), Sig(3, None)>>),
     Resolved(<<Sig(2, 7), Sig(1, 5)>>),
     Resolved([i \in 1..(chunkSize + 1) |-> Sig(i, 100 - i)])}

MaxSignatureOptions == {1, 30}

\* collectRecentSignatures: the body of the loop over the items of one answer.
signatureMapSet(map, item) ==
    LET blockTime == IF item.blockTime = None THEN 0 ELSE item.blockTime
        i == MapIndex(map, item.signature, "signature")
    IN  IF i = 0 THEN Append(map, [signature |-> item.signature, blockTime |-> blockTime])
        ELSE IF blockTime > map[i].blockTime THEN [map EXCEPT ![i].blockTime = blockTime]
        ELSE map

\* buildHighVolumeBoard: the body of the loop over the signatures of one program.
signatureSourcesSet(map, item, tag) ==
    LET i == MapIndex(map, item.signature, "signature")
    IN  IF i = 0 THEN Append(map, [signature |-> item.signature, sources |-> {tag}])
        ELSE [map EXCEPT ![i].sources = @ \cup {tag}]

\* collectRecentSignatures: the loop over the items of one answer. (The map holds
\* an entry after every iteration; the test has each iteration evaluated in turn.)
RECURSIVE signatureMapAfter(_, _)
signatureMapAfter(map, answer) ==
    IF answer = <<>> THEN map
    ELSE LET next == signatureMapSet(map, Head(answer))
         IN  IF next = <<>> THEN next
             ELSE signatureMapAfter(next, Tail(answer))

\* buildHighVolumeBoard: the loop over the signatures of one program.
RECURSIVE signatureSourcesAfter(_, _, _)
signatureSourcesAfter(map, answer, tag) ==
    IF answer = <<>> THEN map
    ELSE LET next == signatureSourcesSet(map, Head(answer), tag)
         IN  IF next = <<>> THEN next
             ELSE signatureSourcesAfter(next, Tail(answer), tag)

\* The map after the answer of one wallet or program has been read.
mapAfterAnswer(kind, map, answer, source) ==
    IF kind = "snapshot" THEN signatureMapAfter(map, answer)
    ELSE signatureSourcesAfter(map, answer, sourceTag(source))

\* The place of entry i after .sort((a, b) => b[1] - a[1]): behind the entries of a
\* later block time and, the sort being stable, behind the earlier entries of its own.
blockTimeRank(entries, i) ==
    Cardinality({j \in 1..Len(entries) :
                    \/ entries[j].blockTime > entries[i].blockTime
                    \/ entries[j].blockTime = entries[i].blockTime /\ j <= i})

\* .sort((a, b) => b[1] - a[1]): by block time, descending, stable.
sortedByBlockTime(entries) ==
    [k \in 1..Len(entries) |->
        entries[CHOOSE i \in 1..Len(entries) : blockTimeRank(entries, i) = k]]

\* The signatures to scan: sorted and capped for buildSnapshot, the keys of
\* signatureSources for the board.
selectSignatures(kind, map, limit) ==
    LET chosen == IF kind = "snapshot" THEN slice(sortedByBlockTime(map), limit)
                  ELSE map
    IN  [i \in 1..Len(chosen) |-> chosen[i].signature]

\* The wallets of the batch after the one that ends with wallet w of runInBatches
\* (the programs of the board are fetched in one Promise.all).
nextBatch(kind, w) ==
    IF kind = "board" THEN {}
    ELSE LET last == ((w - 1) \div walletBatchSize + 1) * walletBatchSize
         IN  {v \in Sources : v > last /\ v <= last + walletBatchSize}

\* One signature fetch has settled with the map as given: the batch goes on, the
\* next batch starts, or the signatures are selected and the chunks begin.
SignatureSettled(w, map) ==
    LET rest == waiting \ {w}
        batch == IF rest = {} THEN nextBatch(scanKind, w) ELSE rest
        selected == selectSignatures(scanKind, map, maxSigs)
    IN  /\ signatureMap' = map
        /\ waiting' = batch
        /\ signatures' = IF batch = {} THEN selected ELSE signatures
        /\ scanPc' = IF batch # {} THEN "signatures"
                     ELSE IF selected = <<>> THEN "done"
                     ELSE "chunks"
        /\ UNCHANGED <<liveVars, cacheVars, buildVars, tradeVars, now, ev, scanKind, fetchResults,
                       chunkFailures, maxSigs, chunkIndex, transactions>>

\* getSignaturesForAddress resolved for wallet or program w.
SignaturesArrive(w) ==
    /\ scanPc = "signatures"
    /\ w \in waiting
    /\ fetchResults[w].ok
    /\ SignatureSettled(w, mapAfterAnswer(scanKind, signatureMap, fetchResults[w].items, w))

\* getSignaturesForAddress rejected for wallet or program w: caught.
SignaturesFail(w) ==
    /\ scanPc = "signatures"
    /\ w \in waiting
    /\ ~fetchResults[w].ok
    /\ SignatureSettled(w, signatureMap)

\* signatures.slice(i, i + 25)
chunk(list, i) ==
    SubSeq(list, i + 1, IF i + chunkSize < Len(list) THEN i + chunkSize ELSE Len(list))

chunkNumber(i) == i \div chunkSize + 1

afterChunk(i) == IF i + chunkSize < Len(signatures) THEN "chunks" ELSE "done"

\* getParsedTransactions resolved for the chunk at chunkIndex.
ChunkArrives ==
    /\ scanPc = "chunks"
    /\ chunkNumber(chunkIndex) \notin chunkFailures
    /\ transactions' = transactions \o chunk(signatures, chunkIndex)
    /\ chunkIndex' = chunkIndex + chunkSize
    /\ scanPc' = afterChunk(chunkIndex)
    /\ UNCHANGED <<liveVars, cacheVars, buildVars, tradeVars, now, ev, scanKind, fetchResults,
                   chunkFailures, maxSigs, waiting, signatureMap, signatures>>

\* A rejection of getParsedTransactions is caught in buildHighVolumeBoard; in
\* collectTransferEventsForMint nothing catches it and buildSnapshot rejects.
chunkFailure(kind, i) == IF kind = "board" THEN afterChunk(i) ELSE "rejected"

\* getParsedTransactions rejected for the chunk at chunkIndex.
ChunkFails ==
    /\ scanPc = "chunks"
    /\ chunkNumber(chunkIndex) \in chunkFailures
    /\ chunkIndex' = chunkIndex + chunkSize
    /\ scanPc' = chunkFailure(scanKind, chunkIndex)
    /\ UNCHANGED <<liveVars, cacheVars, buildVars, tradeVars, now, ev, scanKind, fetchResults,
                   chunkFailures, maxSigs, waiting, signatureMap, signatures, transactions>>

\* A scan that has just issued its first signature fetches, for every answer of
\* the RPC within the bounds.
ScanInit ==
    /\ LiveInit
    /\ CacheIdle
    /\ BuildIdle
    /\ TradeIdle
    /\ now = 0
    /\ ev = NoEvent
    /\ scanKind \in {"snapshot", "board"}
    /\ fetchResults \in [Sources -> SignatureAnswers]
    /\ chunkFailures \in SUBSET {1, 2}
    /\ maxSigs \in MaxSignatureOptions
    /\ waiting = IF scanKind = "board" THEN Sources
                 ELSE {w \in Sources : w <= walletBatchSize}
    /\ signatureMap = <<>>
    /\ signatures = <<>>
    /\ chunkIndex = 0
    /\ transactions = <<>>
    /\ scanPc = "signatures"

ScanNext ==
    \/ \E w \in Sources : SignaturesArrive(w)
    \/ \E w \in Sources : SignaturesFail(w)
    \/ ChunkArrives
    \/ ChunkFails

ScanSpec == ScanInit /\ [][ScanNext]_vars

(***************************************************************************)
(* Properties of the holder nodes (HolderSpec).                             *)
(***************************************************************************)
\* The accounts that carry an owner and an amount.
Counted == {i \in 1..Len(tokenAccounts) :
               tokenAccounts[i].owner # "" /\ tokenAccounts[i].amount # None}

DistinctOwners == {tokenAccounts[i].owner : i \in Counted}

RECURSIVE SumAmounts(_)
SumAmounts(indices) ==
    IF indices = {} THEN 0
    ELSE LET i == CHOOSE i \in indices : TRUE
         IN  tokenAccounts[i].amount + SumAmounts(indices \ {i})

\* The raw balances of an owner summed over all its accounts.
OwnerSum(owner) == SumAmounts({i \in Counted : tokenAccounts[i].owner = owner})

FirstSeen(owner) == Min({i \in Counted : tokenAccounts[i].owner = owner})

\* Summed balance descending, ties in first-insertion order.
RanksBefore(a, b) ==
    \/ OwnerSum(a) > OwnerSum(b)
    \/ OwnerSum(a) = OwnerSum(b) /\ FirstSeen(a) < FirstSeen(b)

NodeAddresses == {nodes[i].address : i \in 1..Len(nodes)}

\* C12: the node list is the first holderLimit of the distinct owners, each with
\* its raw balances summed over all its accounts, ordered by summed balance
\* descending with ties in first-insertion order; so no address is in two nodes.
C12_NodesAreTopHolders ==
    buildPc = "nodes" =>
        /\ Len(nodes) = Min({normalizedOptions.holderLimit, Cardinality(DistinctOwners)})
        /\ \A i \in 1..Len(nodes) :
               /\ nodes[i].address \in DistinctOwners
               /\ nodes[i].balance =
                      toUiAmount(OwnerSum(nodes[i].address), mintMetadata.decimals)
        /\ \A i, j \in 1..Len(nodes) :
               i < j => RanksBefore(nodes[i].address, nodes[j].address)
        /\ \A owner \in DistinctOwners \ NodeAddresses :
               \A i \in 1..Len(nodes) : RanksBefore(nodes[i].address, owner)

\* Nodes emitted from an owner with two accounts, two owners with equal sums and
\* more owners than holderLimit.
C12_Witness ==
    /\ buildPc = "nodes"
    /\ Len(nodes) > 0
    /\ Len(nodes) < Cardinality(DistinctOwners)
    /\ \E owner \in DistinctOwners :
           Cardinality({i \in Counted : tokenAccounts[i].owner = owner}) > 1
    /\ \E a, b \in DistinctOwners : a # b /\ OwnerSum(a) = OwnerSum(b)

\* C13: no node belongs to an owner whose token accounts sum to a raw balance of 0.
C13_NoZeroBalanceNode ==
    \A i \in 1..Len(nodes) : OwnerSum(nodes[i].address) # 0


\* The exact sum of the pctSupply values of the nodes, as m * 2^e.
PctExponent == Min({nodes[i].pctSupply.e : i \in 1..Len(nodes)} \cup {0})

RECURSIVE PctMantissa(_)
PctMantissa(n) ==
    IF n = 0 THEN 0
    ELSE PctMantissa(n - 1) + nodes[n].pctSupply.m * Pow2(nodes[n].pctSupply.e - PctExponent)

PctSum == [m |-> PctMantissa(Len(nodes)), e |-> PctExponent]

\* Each node carries balance / supply * 100, or 0 when supply <= 0.
PctFormula ==
    \A i \in 1..Len(nodes) :
        nodes[i].pctSupply =
            IF mintMetadata.supply.m <= 0 THEN Zero
            ELSE NumMul(NumDiv(nodes[i].balance, mintMetadata.supply), Number(100))

\* The full holder set fits under holderLimit and the holders' raw balances sum
\* to at most the raw supply.
FullSetWithinSupply ==
    /\ buildPc = "nodes"
    /\ Cardinality(DistinctOwners) <= normalizedOptions.holderLimit
    /\ SumAmounts(Counted) <= mintMetadata.supplyRaw

\* C14 as stated: each pctSupply is balance / supply * 100, or 0 when supply <= 0,
\* and when the full holder set fits under holderLimit and the raw balances sum
\* to at most the raw supply the pctSupply values sum to at most 100.
C14_PctSumAtMost100 ==
    buildPc = "nodes" =>
        /\ PctFormula
        /\ FullSetWithinSupply => NumLeqRat(PctSum, 100, 1)

\* C14, amended: as above, with the sum at most 100 within floating tolerance,
\* a relative excess of at most 2^(3 - MantissaBits).
C14_PctSumWithinTolerance ==
    buildPc = "nodes" =>
        /\ PctFormula
        /\ FullSetWithinSupply =>
               NumLeqRat(PctSum, 100 * (Pow2(MantissaBits - 3) + 1), Pow2(MantissaBits - 3))

\* Several holders that together hold the whole supply.
C14_Witness ==
    /\ FullSetWithinSupply
    /\ Len(nodes) > 1
    /\ SumAmounts(Counted) = mintMetadata.supplyRaw
    /\ \A i \in 1..Len(nodes) : nodes[i].pctSupply # Zero


(***************************************************************************)
(* Properties of the transfer edges (EdgeSpec).                            *)
(***************************************************************************)
\* The wallets whose signatures are scanned: the nodes capped to edgeWalletLimit.
EdgeWallets ==
    LET top == topWalletsForEdges(nodes, normalizedOptions)
    IN  {top[i] : i \in 1..Len(top)}

\* C15: every emitted edge has from # to and both endpoints in the holder list
\* capped to the edge-wallet limit (the wallets whose signatures were scanned).
C15_EdgesWithinEdgeWallets ==
    buildPc = "done" =>
        \A i \in 1..Len(edges) :
            /\ edges[i].from # edges[i].to
            /\ edges[i].from \in EdgeWallets
            /\ edges[i].to \in EdgeWallets

\* The instructions that contribute to the edge of an ordered pair: transfers of
\* a positive amount of the mint between two different known owners, both nodes.
Contributions(from, to) ==
    {i \in 1..Len(instructions) :
        /\ instructions[i].type \in {"transfer", "transferChecked"}
        /\ instructions[i].amount # None
        /\ instructions[i].amount > 0
        /\ instructions[i].mint = "target"
        /\ instructions[i].from = from
        /\ instructions[i].to = to
        /\ from # to
        /\ from \in NodeAddresses
        /\ to \in NodeAddresses}

RECURSIVE SumTransfers(_)
SumTransfers(indices) ==
    IF indices = {} THEN 0
    ELSE LET i == CHOOSE i \in indices : TRUE
         IN  instructions[i].amount + SumTransfers(indices \ {i})

KeptPairs ==
    {pair \in (TransferOwners \cup Owners) \X (TransferOwners \cup Owners) :
        Contributions(pair[1], pair[2]) # {}}

\* C16: for each ordered pair (from, to) with at least one kept contribution
\* there is exactly one edge, whose amountSum is the sum of the contributing
\* amounts and whose txCount is their number; there is no other edge.
C16_OneEdgePerOrderedPair ==
    buildPc = "done" =>
        /\ Len(edges) = Cardinality(KeptPairs)
        /\ \A pair \in KeptPairs :
               \E i \in 1..Len(edges) : edges[i].from = pair[1] /\ edges[i].to = pair[2]
        /\ \A i \in 1..Len(edges) :
               LET kept == Contributions(edges[i].from, edges[i].to)
               IN  /\ kept # {}
                   /\ edges[i].txCount = Cardinality(kept)
                   /\ edges[i].amountSum =
                          toUiAmount(SumTransfers(kept), mintMetadata.decimals)

\* An edge made of two transfers, of 1 and of 2.
C16_Witness ==
    /\ buildPc = "done"
    /\ \E i \in 1..Len(edges) :
           /\ edges[i].txCount = 2
           /\ edges[i].amountSum = toUiAmount(3, mintMetadata.decimals)


(***************************************************************************)
(* Properties of the signature scan (ScanSpec).                            *)
(***************************************************************************)
Range(list) == {list[i] : i \in 1..Len(list)}

\* The signatures of the chunks whose fetch was not rejected.
FetchedChunks ==
    {signatures[i] : i \in {j \in 1..Len(signatures) :
                               chunkNumber(j - 1) \notin chunkFailures}}

\* The signatures that the resolved signature fetches answered.
AnsweredSignatures ==
    UNION {{fetchResults[w].items[i].signature : i \in 1..Len(fetchResults[w].items)} :
              w \in Sources}

\* C17: the failure of a single sub-fetch (a wallet's or a program's signature
\* list, a chunk of transactions) never aborts the aggregation: the run is
\* never rejected, and it completes with the data of all other sub-fetches.
C17_SubFetchFailureTolerated ==
    /\ scanPc # "rejected"
    /\ scanPc = "done" =>
           /\ Range(transactions) = FetchedChunks
           /\ {signatureMap[i].signature : i \in 1..Len(signatureMap)} = AnsweredSignatures

\* signatureMap / signatureSources when the fetches settle in request order.
RECURSIVE MapInRequestOrder(_)
MapInRequestOrder(n) ==
    IF n = 0 THEN <<>>
    ELSE LET before == CHOOSE map \in {MapInRequestOrder(n - 1)} : TRUE
         IN  mapAfterAnswer(scanKind, before, fetchResults[n].items, n)

\* C18: for fixed fetch results the set of signatures selected for scanning is
\* the same for every order in which the concurrent signature fetches settle:
\* it is the set selected when they settle in request order.
C18_CompletionOrderIrrelevant ==
    scanPc \in {"chunks", "done", "rejected"} =>
        Range(signatures) =
            Range(selectSignatures(scanKind, MapInRequestOrder(NumSources), maxSigs))


(***************************************************************************)
(* buildHighVolumeBoard: the trades of the parsed transactions.            *)
(***************************************************************************)
MaxTransactions == 2   \* parsed transactions the loop takes

WRAPPED_SOL_MINT == "So11111111111111111111111111111111111111112"
LAMPORTS_PER_GOR == 1000000000

TradeOwners == {"W", "V"}

\* A value of the states map of extractOwnerMintDeltas: the balances of one owner
\* in one mint before and after the transaction.
OwnerMintState(owner, mint, decimals, pre, post) ==
    [owner |-> owner, mint |-> mint, decimals |-> decimals, pre |-> pre, post |-> post]

\* What a transaction does to wallet W: the values of the states map for W and
\* the lamport delta of W.
WalletChange(values, lamportDelta) == [states |-> values, lamportDelta |-> lamportDelta]

WalletChanges ==
    {WalletChange(<<>>, 0),
     WalletChange(<<OwnerMintState("W", "A", 0, 5, 5)>>, 0),
     WalletChange(<<OwnerMintState("W", WRAPPED_SOL_MINT, 0, 10, 0)>>, 0),
     WalletChange(<<OwnerMintState("W", "A", 0, 0, 100),
                    OwnerMintState("W", WRAPPED_SOL_MINT, 0, 10, 0)>>, 0),
     WalletChange(<<OwnerMintState("W", "A", 0, 0, 100),
                    OwnerMintState("W", WRAPPED_SOL_MINT, 0, 0, 5)>>, 0),
     WalletChange(<<OwnerMintState("W", "A", 0, 0, 60), OwnerMintState("W", "B", 0, 0, 40),
                    OwnerMintState("W", WRAPPED_SOL_MINT, 0, 10, 0)>>, 0),
     WalletChange(<<OwnerMintState("W", "A", 0, 0, 1), OwnerMintState("W", "B", 0, 0, 2),
                    OwnerMintState("W", WRAPPED_SOL_MINT, 0, 7, 0)>>, 0),
     WalletChange(<<OwnerMintState("W", "A", 0, 1, 0), OwnerMintState("W", "B", 0, 0, 2),
                    OwnerMintState("W", WRAPPED_SOL_MINT, 0, 0, 7)>>, 0),
     WalletChange(<<OwnerMintState("W", "A", 1, 0, 25),
                    OwnerMintState("W", WRAPPED_SOL_MINT, 0, 10, 0)>>, 0),
     WalletChange(<<OwnerMintState("W", "A", 0, 0, 1),
                    OwnerMintState("W", WRAPPED_SOL_MINT, 0, 3, 3)>>, 0),
     WalletChange(<<OwnerMintState("W", "A", 0, 0, 1),
                    OwnerMintState("W", WRAPPED_SOL_MINT, 0, 3, 3)>>, 0 - LAMPORTS_PER_GOR),
     WalletChange(<<OwnerMintState("W", "A", 0, 0, 1)>>, LAMPORTS_PER_GOR)}

\* What it does to the balances of wallet V.
OtherStates ==
    {<<>>,
     <<OwnerMintState("V", "A", 0, 100, 0), OwnerMintState("V", WRAPPED_SOL_MINT, 0, 0, 10)>>}

BlockTimes == {None, 5}
TradeSources == {<<>>, <<"bang.meme">>, <<"trashbin.fun", "bang.meme">>}

\* A parsed transaction: its block time, the states map of its token balances and
\* the lamport deltas of its accounts.
ParsedTransactions ==
    {[blockTime |-> b,
      states |-> w.states \o v,
      lamports |-> [o \in TradeOwners |-> IF o = "W" THEN w.lamportDelta ELSE 0]] :
        b \in BlockTimes, w \in WalletChanges, v \in OtherStates}

\* The record of a transaction that collectTradeSignals did not get.
NoTransaction == [blockTime |-> None, states |-> <<>>, lamports |-> [o \in TradeOwners |-> 0]]

\* A signed Number.
Signed(negative, magnitude) == [negative |-> negative, magnitude |-> magnitude]

isZero(number) == number.magnitude.m = 0
isPositive(number) == ~number.negative /\ number.magnitude.m > 0
isNegative(number) == number.negative /\ number.magnitude.m > 0

rawToUi(value, decimals) ==
    IF value = 0 THEN Signed(FALSE, Zero)
    ELSE LET divisor == Pow10(decimals)
             abs == IF value < 0 THEN 0 - value ELSE value
             whole == abs \div divisor
             fraction == abs % divisor
         IN  Signed(value < 0,
                    NumAdd(Number(whole), NumDiv(Number(fraction), Number(divisor))))

\* extractOwnerMintDeltas: the values of the states map whose balance changed.
extractOwnerMintDeltas(values) ==
    LET changed == SelectSeq(values, LAMBDA value : value.post - value.pre # 0)
    IN  [i \in 1..Len(changed) |->
            [owner |-> changed[i].owner, mint |-> changed[i].mint,
             decimals |-> changed[i].decimals,
             deltaRaw |-> changed[i].post - changed[i].pre]]

\* The keys of byOwner, in insertion order.
RECURSIVE byOwnerKeys(_)
byOwnerKeys(deltas) ==
    IF deltas = <<>> THEN <<>>
    ELSE LET keys == byOwnerKeys(SubSeq(deltas, 1, Len(deltas) - 1))
             owner == deltas[Len(deltas)].owner
         IN  IF owner \in Range(keys) THEN keys ELSE Append(keys, owner)

\* quoteDeltaUi: the wrapped SOL delta of the owner or else its lamport delta.
quoteDeltaUi(ownerDeltas, lamportDelta) ==
    LET wrapped == SelectSeq(ownerDeltas, LAMBDA delta : delta.mint = WRAPPED_SOL_MINT)
    IN  IF wrapped # <<>> THEN rawToUi(wrapped[1].deltaRaw, wrapped[1].decimals)
        ELSE Signed(lamportDelta < 0,
                    NumDiv(Number(IF lamportDelta < 0 THEN 0 - lamportDelta ELSE lamportDelta),
                           Number(LAMPORTS_PER_GOR)))

isBuyAnyQuote(tokenDeltaUi, quoteDelta) == isPositive(tokenDeltaUi)

isBuy(tokenDeltaUi, quoteDelta) == isPositive(tokenDeltaUi) /\ isNegative(quoteDelta)

isSell(tokenDeltaUi, quoteDelta) == isNegative(tokenDeltaUi) /\ isPositive(quoteDelta)

\* The candidates of one owner: the loop over ownerDeltas.
candidatesOf(ownerDeltas, quoteDelta) ==
    LET tokenDeltaUi(delta) == rawToUi(delta.deltaRaw, delta.decimals)
        kept == SelectSeq(ownerDeltas,
                    LAMBDA delta : /\ delta.mint # WRAPPED_SOL_MINT
                                   /\ ~isZero(tokenDeltaUi(delta))
                                   /\ \/ isBuy(tokenDeltaUi(delta), quoteDelta)
                                      \/ isSell(tokenDeltaUi(delta), quoteDelta))
    IN  [i \in 1..Len(kept) |->
            [mint |-> kept[i].mint,
             isBuy |-> isBuy(tokenDeltaUi(kept[i]), quoteDelta),
             isSell |-> isSell(tokenDeltaUi(kept[i]), quoteDelta),
             tokenAbs |-> tokenDeltaUi(kept[i]).magnitude]]

\* candidates.reduce((sum, candidate) => sum + candidate.tokenAbs, 0)
RECURSIVE totalTokenAbs(_)
totalTokenAbs(candidates) ==
    IF candidates = <<>> THEN Zero
    ELSE NumAdd(totalTokenAbs(SubSeq(candidates, 1, Len(candidates) - 1)),
                candidates[Len(candidates)].tokenAbs)

volumeShareEqual(quoteAbs, tokenAbs, total, count) == NumDiv(quoteAbs, Number(count))

volumeShare(quoteAbs, tokenAbs, total, count) ==
    IF total.m > 0 THEN NumMul(quoteAbs, NumDiv(tokenAbs, total))
    ELSE NumDiv(quoteAbs, Number(count))

\* The candidates with the volume share of each.
sharesOf(candidates, quoteAbs) ==
    [i \in 1..Len(candidates) |->
        [mint |-> candidates[i].mint, isBuy |-> candidates[i].isBuy,
         isSell |-> candidates[i].isSell, tokenAbs |-> candidates[i].tokenAbs,
         volumeShare |-> volumeShare(quoteAbs, candidates[i].tokenAbs,
                                     totalTokenAbs(candidates), Len(candidates))]]

\* aggregate.get(key) ?? { ... }: the entry a key starts with.
newAggregateEntry(source, owner) ==
    [key |-> <<source, owner>>, source |-> source, wallet |-> owner,
     buyVolume |-> Zero, sellVolume |-> Zero, lastActivity |-> None,
     mints |-> {}, buySignatures |-> {}, sellSignatures |-> {}]

\* One iteration of the loop over candidates.
addCandidate(current, share, signature) ==
    [current EXCEPT
        !.mints = @ \cup {share.mint},
        !.buyVolume = IF share.isBuy THEN NumAdd(@, share.volumeShare) ELSE @,
        !.buySignatures = IF share.isBuy THEN @ \cup {signature} ELSE @,
        !.sellVolume = IF share.isSell THEN NumAdd(@, share.volumeShare) ELSE @,
        !.sellSignatures = IF share.isSell THEN @ \cup {signature} ELSE @]

\* Math.max(current.lastActivity ?? 0, blockTimeMs ?? 0) || null
lastActivityAfter(lastActivity, blockTimeMs) ==
    LET a == IF lastActivity = None THEN 0 ELSE lastActivity
        b == IF blockTimeMs = None THEN 0 ELSE blockTimeMs
        latest == IF a > b THEN a ELSE b
    IN  IF latest = 0 THEN None ELSE latest

\* One iteration of the loop over sources.
aggregateSet(map, source, owner, shares, signature, blockTimeMs) ==
    LET i == MapIndex(map, <<source, owner>>, "key")
        current == IF i = 0 THEN newAggregateEntry(source, owner) ELSE map[i]
        withShares[k \in 0..Len(shares)] ==
            IF k = 0 THEN current ELSE addCandidate(withShares[k - 1], shares[k], signature)
        entry == [withShares[Len(shares)] EXCEPT
                     !.lastActivity = lastActivityAfter(@, blockTimeMs)]
    IN  IF i = 0 THEN Append(map, entry) ELSE [map EXCEPT ![i] = entry]

\* One iteration of the loop over byOwner.entries().
ownerSignals(map, owner, deltas, lamportDelta, signature, sources, blockTimeMs) ==
    LET ownerDeltas == SelectSeq(deltas, LAMBDA delta : delta.owner = owner)
        quoteDelta == quoteDeltaUi(ownerDeltas, lamportDelta)
        candidates == candidatesOf(ownerDeltas, quoteDelta)
        shares == sharesOf(candidates, quoteDelta.magnitude)
        afterSource[k \in 0..Len(sources)] ==
            IF k = 0 THEN map
            ELSE aggregateSet(afterSource[k - 1], sources[k], owner, shares, signature,
                              blockTimeMs)
    IN  IF isZero(quoteDelta) \/ candidates = <<>> THEN map
        ELSE afterSource[Len(sources)]

blockTimeMsOf(transaction) ==
    IF transaction.blockTime = None \/ transaction.blockTime = 0 THEN None
    ELSE transaction.blockTime * 1000

collectTradeSignals(transaction, signature, sources, map) ==
    LET deltas == extractOwnerMintDeltas(transaction.states)
        owners == byOwnerKeys(deltas)
        afterOwner[k \in 0..Len(owners)] ==
            IF k = 0 THEN map
            ELSE ownerSignals(afterOwner[k - 1], owners[k], deltas,
                              transaction.lamports[owners[k]], signature, sources,
                              blockTimeMsOf(transaction))
    IN  IF deltas = <<>> \/ sources = <<>> THEN map
        ELSE afterOwner[Len(owners)]

\* What collectTradeSignals attributes: for each owner that has candidates, the
\* absolute quote delta and the candidates with their shares.
attributedBy(transaction, sources) ==
    LET deltas == extractOwnerMintDeltas(transaction.states)
        owners == byOwnerKeys(deltas)
        ownerDeltas(owner) == SelectSeq(deltas, LAMBDA delta : delta.owner = owner)
        quoteDelta(owner) == quoteDeltaUi(ownerDeltas(owner), transaction.lamports[owner])
        attributing == SelectSeq(owners,
                           LAMBDA owner : /\ ~isZero(quoteDelta(owner))
                                          /\ candidatesOf(ownerDeltas(owner), quoteDelta(owner)) # <<>>)
    IN  IF deltas = <<>> \/ sources = <<>> THEN <<>>
        ELSE [i \in 1..Len(attributing) |->
                 [owner |-> attributing[i],
                  quoteAbs |-> quoteDelta(attributing[i]).magnitude,
                  shares |-> sharesOf(candidatesOf(ownerDeltas(attributing[i]),
                                                   quoteDelta(attributing[i])),
                                      quoteDelta(attributing[i]).magnitude)]]

\* The quote delta of an owner in a transaction, in raw units: of wrapped SOL if
\* that changed, else of lamports.
rawQuoteDelta(transaction, owner) ==
    LET wrapped == {value.post - value.pre :
                       value \in {v \in Range(transaction.states) :
                                     v.owner = owner /\ v.mint = WRAPPED_SOL_MINT}} \ {0}
    IN  IF wrapped # {} THEN CHOOSE delta \in wrapped : TRUE
        ELSE transaction.lamports[owner]

\* An owner gains a non-quote asset and loses quote, loses one and gains quote.
buysIn(transaction, owner) ==
    \E value \in Range(transaction.states) :
        /\ value.owner = owner /\ value.mint # WRAPPED_SOL_MINT
        /\ value.post - value.pre > 0 /\ rawQuoteDelta(transaction, owner) < 0

sellsIn(transaction, owner) ==
    \E value \in Range(transaction.states) :
        /\ value.owner = owner /\ value.mint # WRAPPED_SOL_MINT
        /\ value.post - value.pre < 0 /\ rawQuoteDelta(transaction, owner) > 0

\* History: the (source, wallet) pairs that buy and that sell in a transaction.
classifiedBy(transaction, signature, sources) ==
    {c \in [source : Range(sources), wallet : TradeOwners, signature : {signature},
            side : {"buy", "sell"}] :
        IF c.side = "buy" THEN buysIn(transaction, c.wallet)
        ELSE sellsIn(transaction, c.wallet)}

\* a - b
NumSub(a, b) ==
    LET e == IF a.e < b.e THEN a.e ELSE b.e
        x == a.m * Pow2(a.e - e)
        y == b.m * Pow2(b.e - e)
    IN  Signed(x < y, RoundRat(IF x < y THEN y - x ELSE x - y, 1, e))

toBoardEntryByAsset(entry) ==
    [source |-> entry.source, wallet |-> entry.wallet,
     buyVolume |-> entry.buyVolume, sellVolume |-> entry.sellVolume,
     netVolume |-> NumSub(entry.buyVolume, entry.sellVolume),
     totalVolume |-> NumAdd(entry.buyVolume, entry.sellVolume),
     buyTxCount |-> IF entry.buySignatures = {} THEN 0 ELSE Cardinality(entry.mints),
     sellTxCount |-> IF entry.sellSignatures = {} THEN 0 ELSE Cardinality(entry.mints),
     tokenCount |-> Cardinality(entry.mints),
     lastActivity |-> entry.lastActivity]

toBoardEntry(entry) ==
    [source |-> entry.source, wallet |-> entry.wallet,
     buyVolume |-> entry.buyVolume, sellVolume |-> entry.sellVolume,
     netVolume |-> NumSub(entry.buyVolume, entry.sellVolume),
     totalVolume |-> NumAdd(entry.buyVolume, entry.sellVolume),
     buyTxCount |-> Cardinality(entry.buySignatures),
     sellTxCount |-> Cardinality(entry.sellSignatures),
     tokenCount |-> Cardinality(entry.mints),
     lastActivity |-> entry.lastActivity]

\* What parseInteger of the route makes of the limit parameter, and minTotalGor in GOR.
ResultLimits == {1, 2}
MinTotals == {0, 10}

boardBeforeByActivity(a, b) ==
    LET activity(entry) == IF entry.lastActivity = None THEN 0 ELSE entry.lastActivity
    IN  activity(a) > activity(b)

\* The comparator of the board puts a before b: totalVolume descending, then
\* lastActivity ?? 0 descending.
boardBefore(a, b) ==
    LET activity(entry) == IF entry.lastActivity = None THEN 0 ELSE entry.lastActivity
    IN  IF a.totalVolume = b.totalVolume THEN activity(a) > activity(b)
        ELSE NumLess(b.totalVolume, a.totalVolume)

\* The place of entry i after the sort, which is stable: behind the entries the
\* comparator puts before it and behind the earlier ones it ties with.
boardRank(entries, i) ==
    Cardinality({j \in 1..Len(entries) :
                    \/ boardBefore(entries[j], entries[i])
                    \/ ~boardBefore(entries[i], entries[j]) /\ j <= i})

\* [...aggregate.values()].map(toBoardEntry).filter(...).sort(...).slice(0, safeLimit)
rankedEntriesOf(map, safeLimit, safeMinTotalGor) ==
    LET mapped == [i \in 1..Len(map) |-> toBoardEntry(map[i])]
        kept == SelectSeq(mapped, LAMBDA entry : ~NumLess(entry.totalVolume, safeMinTotalGor))
        sorted == [k \in 1..Len(kept) |->
                      kept[CHOOSE i \in 1..Len(kept) : boardRank(kept, i) = k]]
    IN  slice(sorted, safeLimit)

\* The loop is over: the board is ranked and cut.
EmitBoard(limit, minTotalGor) ==
    /\ tradePc = "scanning"
    /\ LET safeLimit == IF limit > 1 THEN limit ELSE 1
           safeMinTotalGor == Number(minTotalGor)
       IN  /\ boardRequest' = [limit |-> limit, safeLimit |-> safeLimit,
                               safeMinTotalGor |-> safeMinTotalGor]
           /\ rankedEntries' = rankedEntriesOf(aggregate, safeLimit, safeMinTotalGor)
    /\ tradePc' = "done"
    /\ UNCHANGED <<liveVars, cacheVars, buildVars, scanVars, now, ev, aggregate,
                   scannedTransactions, parsedTransaction, aggregateBefore, attributed,
                   classified>>

\* The loop takes a transaction whose signature has sources: collectTradeSignals.
CollectTrades(transaction, sources) ==
    /\ tradePc = "scanning"
    /\ scannedTransactions < MaxTransactions
    /\ scannedTransactions' = scannedTransactions + 1
    /\ parsedTransaction' = [transaction |-> transaction,
                             signature |-> scannedTransactions + 1,
                             sources |-> sources,
                             collected |-> TRUE]
    /\ aggregateBefore' = aggregate
    /\ aggregate' = collectTradeSignals(transaction, scannedTransactions + 1, sources,
                                        aggregate)
    /\ attributed' = attributedBy(transaction, sources)
    /\ classified' = classified
                        \cup classifiedBy(transaction, scannedTransactions + 1, sources)
    /\ UNCHANGED <<liveVars, cacheVars, buildVars, scanVars, now, ev, tradePc,
                   boardRequest, rankedEntries>>

\* The loop takes a transaction without a signature, or whose signature is not in
\* signatureSources.
SkipTransaction ==
    /\ tradePc = "scanning"
    /\ scannedTransactions < MaxTransactions
    /\ scannedTransactions' = scannedTransactions + 1
    /\ parsedTransaction' = [transaction |-> NoTransaction,
                             signature |-> scannedTransactions + 1,
                             sources |-> <<>>,
                             collected |-> FALSE]
    /\ aggregateBefore' = aggregate
    /\ attributed' = <<>>
    /\ UNCHANGED <<liveVars, cacheVars, buildVars, scanVars, now, ev, tradePc, aggregate,
                   classified, boardRequest, rankedEntries>>

TradeInit ==
    /\ LiveInit
    /\ CacheIdle
    /\ BuildIdle
    /\ ScanIdle
    /\ now = 0
    /\ ev = NoEvent
    /\ aggregate = <<>>
    /\ scannedTransactions = 0
    /\ parsedTransaction = <<>>
    /\ aggregateBefore = <<>>
    /\ attributed = <<>>
    /\ classified = {}
    /\ boardRequest = <<>>
    /\ rankedEntries = <<>>
    /\ tradePc = "scanning"

TradeNext ==
    \/ \E transaction \in ParsedTransactions, sources \in TradeSources :
           CollectTrades(transaction, sources)
    \/ SkipTransaction
    \/ \E limit \in ResultLimits, minTotalGor \in MinTotals : EmitBoard(limit, minTotalGor)

TradeSpec == TradeInit /\ [][TradeNext]_vars


(***************************************************************************)
(* Properties of the trade signals (TradeSpec).                            *)
(***************************************************************************)
TxCollected == scannedTransactions > 0 /\ parsedTransaction.collected

\* The balances of an owner that the transaction taken last changed.
StatesOf(owner) ==
    {value \in Range(parsedTransaction.transaction.states) : value.owner = owner}

\* The quote delta of an owner in raw units: of wrapped SOL if that changed, else
\* of lamports.
RawQuoteDelta(owner) ==
    LET wrapped == {value.post - value.pre :
                       value \in {v \in StatesOf(owner) : v.mint = WRAPPED_SOL_MINT}}
                   \ {0}
    IN  IF wrapped # {} THEN CHOOSE delta \in wrapped : TRUE
        ELSE parsedTransaction.transaction.lamports[owner]

\* The non-quote assets of an owner classified as buy and as sell.
Buys(owner) ==
    {value.mint : value \in {v \in StatesOf(owner) :
        v.mint # WRAPPED_SOL_MINT /\ v.post - v.pre > 0 /\ RawQuoteDelta(owner) < 0}}

Sells(owner) ==
    {value.mint : value \in {v \in StatesOf(owner) :
        v.mint # WRAPPED_SOL_MINT /\ v.post - v.pre < 0 /\ RawQuoteDelta(owner) > 0}}

\* The accumulator entry of a source and an owner: <<>> when there is none.
EntryOf(map, source, owner) ==
    LET i == MapIndex(map, <<source, owner>>, "key")
    IN  IF i = 0 THEN <<>> ELSE <<map[i]>>

\* C19: the non-quote asset deltas of an owner are classified as buy iff token
\* delta > 0 and quote delta < 0, as sell iff token delta < 0 and quote delta > 0,
\* and are discarded otherwise; when no delta of the owner qualifies the
\* accumulator entry of the owner is left as it was: none is created, and no
\* volume, asset, signature or lastActivity is recorded.
C19_BuySellClassification ==
    TxCollected =>
        \A owner \in TradeOwners, source \in {"bang.meme", "trashbin.fun"} :
            LET before == EntryOf(aggregateBefore, source, owner)
                after == EntryOf(aggregate, source, owner)
                first == IF before = <<>> THEN newAggregateEntry(source, owner)
                         ELSE before[1]
                signature == parsedTransaction.signature
            IN  IF \/ source \notin Range(parsedTransaction.sources)
                   \/ Buys(owner) \cup Sells(owner) = {}
                THEN after = before
                ELSE /\ after # <<>>
                     /\ after[1].mints = first.mints \cup Buys(owner) \cup Sells(owner)
                     /\ after[1].buySignatures =
                            first.buySignatures
                                \cup (IF Buys(owner) # {} THEN {signature} ELSE {})
                     /\ after[1].sellSignatures =
                            first.sellSignatures
                                \cup (IF Sells(owner) # {} THEN {signature} ELSE {})
                     /\ Buys(owner) = {} => after[1].buyVolume = first.buyVolume
                     /\ Sells(owner) = {} => after[1].sellVolume = first.sellVolume

\* A transaction with sources in which wallet W gains a token and gains quote, so
\* that nothing qualifies and W has no entry, while wallet V sells and has one.
C19_Witness ==
    /\ TxCollected
    /\ parsedTransaction.sources # <<>>
    /\ \E value \in StatesOf("W") : value.mint = "A" /\ value.post - value.pre > 0
    /\ RawQuoteDelta("W") > 0
    /\ Sells("V") # {}
    /\ EntryOf(aggregate, "bang.meme", "W") = <<>>
    /\ EntryOf(aggregate, "bang.meme", "V") # <<>>

\* number * 2^(-e), for e at most the exponent of the number
Scaled(number, e) == number.m * Pow2(number.e - e)

\* The least exponent of the shares and the quote of an attribution.
ShareExponent(attribution) ==
    LET exponents == {attribution.quoteAbs.e}
                        \cup {share.volumeShare.e : share \in Range(attribution.shares)}
    IN  CHOOSE e \in exponents : \A other \in exponents : e <= other

TokenExponent(attribution) ==
    LET exponents == {share.tokenAbs.e : share \in Range(attribution.shares)}
    IN  CHOOSE e \in exponents : \A other \in exponents : e <= other

RECURSIVE SumShares(_, _)
SumShares(shares, e) ==
    IF shares = <<>> THEN 0
    ELSE Scaled(Head(shares).volumeShare, e) + SumShares(Tail(shares), e)

RECURSIVE SumTokenAbs(_, _)
SumTokenAbs(shares, e) ==
    IF shares = <<>> THEN 0
    ELSE Scaled(Head(shares).tokenAbs, e) + SumTokenAbs(Tail(shares), e)

Distance(a, b) == IF a < b THEN b - a ELSE a - b

\* C20: the shares attributed to the candidates of an owner in one transaction
\* sum to exactly the absolute quote delta of the owner.
C20_SharesSumExactly ==
    \A attribution \in Range(attributed) :
        SumShares(attribution.shares, ShareExponent(attribution))
            = Scaled(attribution.quoteAbs, ShareExponent(attribution))

\* C20 (as the code computes it): each share is the absolute quote delta times
\* the candidate's part of the total absolute token delta, and the shares sum to
\* the absolute quote delta, both up to the rounding of the Number operations
\* (a relative error of (candidates + 2) * 2^-MantissaBits); a single candidate
\* receives exactly the absolute quote delta, which a new entry then holds as
\* its volume.
C20_SharesSumWithinRounding ==
    \A attribution \in Range(attributed) :
        LET shares == attribution.shares
            e == ShareExponent(attribution)
            quote == Scaled(attribution.quoteAbs, e)
            total == SumTokenAbs(shares, TokenExponent(attribution))
            ulps == Len(shares) + 2
        IN  /\ Distance(SumShares(shares, e), quote) * Pow2(MantissaBits) <= ulps * quote
            /\ \A i \in 1..Len(shares) :
                   LET part == Scaled(shares[i].tokenAbs, TokenExponent(attribution))
                   IN  Distance(Scaled(shares[i].volumeShare, e) * total, quote * part)
                           * Pow2(MantissaBits) <= ulps * quote * part
            /\ Len(shares) = 1 =>
                   /\ shares[1].volumeShare = attribution.quoteAbs
                   /\ \A source \in Range(parsedTransaction.sources) :
                          EntryOf(aggregateBefore, source, attribution.owner) = <<>> =>
                              LET entry == EntryOf(aggregate, source, attribution.owner)[1]
                              IN  IF shares[1].isBuy
                                  THEN entry.buyVolume = attribution.quoteAbs
                                  ELSE entry.sellVolume = attribution.quoteAbs

\* Token deltas +60 and +40 against a quote delta of -10 got the shares 6 and 4.
C20_Witness ==
    \E attribution \in Range(attributed) :
        /\ attribution.quoteAbs = Number(10)
        /\ Len(attribution.shares) = 2
        /\ attribution.shares[1].tokenAbs = Number(60)
        /\ attribution.shares[1].volumeShare = Number(6)
        /\ attribution.shares[2].tokenAbs = Number(40)
        /\ attribution.shares[2].volumeShare = Number(4)

\* The transactions in which a wallet bought (sold) under a source.
TransactionsOf(source, owner, side) ==
    {c.signature : c \in {x \in classified :
                            x.source = source /\ x.wallet = owner /\ x.side = side}}

\* C21: buyTxCount (sellTxCount) of the board entry of a source and a wallet is
\* the number of distinct transactions scanned so far in which the wallet had a
\* delta classified as buy (sell) under that source, however many assets it
\* bought (sold) in them; a pair without such a transaction has no entry.
C21_TxCountsAreDistinctTransactions ==
    /\ \A source \in {"bang.meme", "trashbin.fun"}, owner \in TradeOwners :
           LET entry == EntryOf(aggregate, source, owner)
           IN  IF entry = <<>>
               THEN TransactionsOf(source, owner, "buy")
                        \cup TransactionsOf(source, owner, "sell") = {}
               ELSE /\ toBoardEntry(entry[1]).buyTxCount
                           = Cardinality(TransactionsOf(source, owner, "buy"))
                    /\ toBoardEntry(entry[1]).sellTxCount
                           = Cardinality(TransactionsOf(source, owner, "sell"))
    /\ \A i \in 1..Len(rankedEntries) :
           /\ rankedEntries[i].buyTxCount
                  = Cardinality(TransactionsOf(rankedEntries[i].source,
                                               rankedEntries[i].wallet, "buy"))
           /\ rankedEntries[i].sellTxCount
                  = Cardinality(TransactionsOf(rankedEntries[i].source,
                                               rankedEntries[i].wallet, "sell"))

\* A board with an entry of a wallet that bought two assets in one transaction
\* and bought again in a second one.
C21_Witness ==
    /\ tradePc = "done"
    /\ \E i \in 1..Len(rankedEntries) :
           /\ rankedEntries[i].tokenCount = 2
           /\ rankedEntries[i].buyTxCount = 2
           /\ \E attribution \in Range(attributed) :
                  /\ attribution.owner = rankedEntries[i].wallet
                  /\ Len(attribution.shares) = 2

\* The board entries of the accumulator that reach the threshold of the request.
Qualifying ==
    {toBoardEntry(aggregate[i]) : i \in {j \in 1..Len(aggregate) :
        ~NumLess(toBoardEntry(aggregate[j]).totalVolume, boardRequest.safeMinTotalGor)}}

ActivityOf(entry) == IF entry.lastActivity = None THEN 0 ELSE entry.lastActivity

\* a ranks strictly above b: more total volume, or as much and active later
\* (an unknown lastActivity is the earliest).
RanksAbove(a, b) ==
    \/ NumLess(b.totalVolume, a.totalVolume)
    \/ a.totalVolume = b.totalVolume /\ ActivityOf(a) > ActivityOf(b)

\* C22: the board is the first `limit` of the accumulator entries whose
\* totalVolume is at least minTotalGor, sorted by totalVolume descending, ties by
\* lastActivity descending with unknown lastActivity last: nothing below the
\* threshold is emitted, totalVolume never increases along the list, the list is
\* no longer than the limit, and no entry left out ranks above an emitted one.
C22_BoardIsRankedAndCut ==
    tradePc = "done" =>
        /\ Range(rankedEntries) \subseteq Qualifying
        /\ Len(rankedEntries) <= boardRequest.limit
        /\ Len(rankedEntries) = Min({boardRequest.limit, Cardinality(Qualifying)})
        /\ \A i, j \in 1..Len(rankedEntries) :
               i < j => /\ rankedEntries[i] # rankedEntries[j]
                        /\ ~NumLess(rankedEntries[i].totalVolume, rankedEntries[j].totalVolume)
                        /\ ~RanksAbove(rankedEntries[j], rankedEntries[i])
        /\ \A entry \in Qualifying \ Range(rankedEntries) :
               \A i \in 1..Len(rankedEntries) : ~RanksAbove(entry, rankedEntries[i])

\* A board of two entries of equal totalVolume, the one active later first though
\* it entered the accumulator last, with a third qualifying entry cut by the limit.
C22_Witness ==
    /\ tradePc = "done"
    /\ Len(rankedEntries) = 2
    /\ rankedEntries[1].totalVolume = rankedEntries[2].totalVolume
    /\ rankedEntries[1].lastActivity # None
    /\ rankedEntries[2].lastActivity = None
    /\ MapIndex(aggregate, <<rankedEntries[1].source, rankedEntries[1].wallet>>, "key")
           > MapIndex(aggregate, <<rankedEntries[2].source, rankedEntries[2].wallet>>, "key")
    /\ Cardinality(Qualifying) > boardRequest.limit
    /\ boardRequest.safeMinTotalGor # Zero

====
